---- MODULE Spec2Model ----
(***************************************************************************)
(* Model of the bulk-ingestion pipeline of materials-database              *)
(* (crates/database/src/etl_pipeline.rs): ETLPipeline::ingest, the tasks   *)
(* it spawns (process_record), the dedup cache, the progress map and the   *)
(* semaphore that bounds the tasks in flight.                              *)
(*                                                                         *)
(* Strings are sequences of one-character strings, so that normalisation   *)
(* and formatting are computed character by character as the code does.    *)
(***************************************************************************)
EXTENDS Integers, Sequences, FiniteSets, TLC

\* ------------------------------------------------------------------ bounds

\* Largest max_workers a pipeline of the model is constructed with.
MaxWorkers == 2
\* Largest batch_size of the model (the code fixes 1000; the model covers
\* every batch size from 1 up to this bound).
MaxBatch == 2
\* Longest record list handed to one ingest call.
MaxLen == 2
\* Number of ingest calls over one run.
MaxCalls == 2
\* Records handed to ingest over one run, all calls together.
MaxRecords == 2
\* Number of clear_cache calls over one run.
MaxClears == 1

\* ----------------------------------------------------------------- strings

Upper == {"A", "C", "E", "F", "H", "L", "O"}
Lower == {"a", "b", "c", "e", "f", "h", "l", "o"}
\* char::is_whitespace
White == {" ", "\t", "\n"}

\* char::is_alphabetic
is_alphabetic(c) == c \in Upper \cup Lower

\* char::to_lowercase
to_lowercase(c) ==
  CASE c = "A" -> "a"
    [] c = "C" -> "c"
    [] c = "E" -> "e"
    [] c = "F" -> "f"
    [] c = "H" -> "h"
    [] c = "L" -> "l"
    [] c = "O" -> "o"
    [] OTHER -> c

RECURSIVE Flatten(_)
Flatten(ss) == IF ss = <<>> THEN <<>> ELSE Head(ss) \o Flatten(Tail(ss))

\* str::replace(" ", ""): only U+0020 is removed
RemoveSpaces(s) == SelectSeq(s, LAMBDA c : c # " ")

\* str::trim().is_empty(): nothing is left once the white space is stripped
TrimIsEmpty(s) == \A i \in 1..Len(s) : s[i] \in White

\* <str as Debug>::fmt: the text between quotes, with escapes
EscapeDebug(c) ==
  CASE c = "\"" -> <<"\\", "\"">>
    [] c = "\\" -> <<"\\", "\\">>
    [] c = "\t" -> <<"\\", "t">>
    [] c = "\n" -> <<"\\", "n">>
    [] OTHER -> <<c>>

DebugStr(s) == <<"\"">> \o Flatten([i \in 1..Len(s) |-> EscapeDebug(s[i])]) \o <<"\"">>

\* ------------------------------------------------------------ data sources

\* enum DataSource; name is the String of Custom and empty otherwise
Src(tag, name) == [tag |-> tag, name |-> name]
MaterialsProject == Src("MaterialsProject", <<>>)
ICSD == Src("ICSD", <<>>)
PubChem == Src("PubChem", <<>>)
Custom(name) == Src("Custom", name)

\* The variant names, spelled out.
VariantName(tag) ==
  CASE tag = "MaterialsProject" ->
         <<"M","a","t","e","r","i","a","l","s","P","r","o","j","e","c","t">>
    [] tag = "ICSD" -> <<"I","C","S","D">>
    [] tag = "PubChem" -> <<"P","u","b","C","h","e","m">>
    [] tag = "Custom" -> <<"C","u","s","t","o","m">>

\* #[derive(Debug)] on DataSource
DebugSource(src) ==
  IF src.tag = "Custom"
    THEN VariantName(src.tag) \o <<"(">> \o DebugStr(src.name) \o <<")">>
    ELSE VariantName(src.tag)

\* --------------------------------------------------- the pure functions

\* struct RawMaterialData, the fields the pipeline reads
Rec(src, sid, formula) == [source |-> src, source_id |-> sid, formula |-> formula]

normalize_formula(formula) ==
  LET stripped == RemoveSpaces(formula)
  IN [i \in 1..Len(stripped) |-> to_lowercase(stripped[i])]

\* generate_fingerprint without its source prefix
generate_fingerprint_nosource(record) == normalize_formula(record.formula)

\* format!("{:?}:{}", record.source, normalized)
generate_fingerprint(record) ==
  DebugSource(record.source) \o <<":">> \o normalize_formula(record.formula)

\* Any formula will do.
is_valid_formula_any(formula) == TRUE

\* is_valid_formula, lines 246-249: formula.chars().any(|c| c.is_alphabetic())
is_valid_formula(formula) == \E i \in 1..Len(formula) : is_alphabetic(formula[i])

\* TRUE for Ok(()), FALSE for Err
validate_record(record) ==
  IF TrimIsEmpty(record.formula) THEN FALSE
  ELSE IF ~is_valid_formula(record.formula) THEN FALSE
  ELSE TRUE


\* ------------------------------------------------------------------ inputs

Fe2O3 == <<"F", "e", "2", "O", "3">>
fe2o3_spaced == <<" ", "f", "e", "2", "o", "3", " ">>
Al2O3 == <<"A", "l", "2", "O", "3">>
NoLetters == <<"2", " ", "3">>

\* The records a caller may hand to ingest.
RecordPool ==
  { Rec(MaterialsProject, "mp-0", Fe2O3),
    Rec(MaterialsProject, "mp-1", fe2o3_spaced),
    Rec(PubChem, "CID1000", Fe2O3),
    Rec(MaterialsProject, "mp-3", NoLetters) }

\* The source arguments a caller may pass to ingest.
SourceArgs == {MaterialsProject, PubChem}

\* The record lists a caller may hand to ingest: every list over the pool.
RecordLists == UNION {[1..n -> RecordPool] : n \in 0..MaxLen}

\* The record lists of the documented scenarios.
ScenarioLists ==
  { <<>>,
    <<Rec(MaterialsProject, "mp-0", Fe2O3),
      Rec(MaterialsProject, "mp-0", Fe2O3),
      Rec(MaterialsProject, "mp-2", Al2O3)>>,
    <<Rec(MaterialsProject, "mp-0", Fe2O3),
      Rec(MaterialsProject, "mp-1", fe2o3_spaced),
      Rec(PubChem, "CID1000", Fe2O3)>>,
    <<Rec(MaterialsProject, "mp-3", NoLetters),
      Rec(MaterialsProject, "mp-2", Al2O3),
      Rec(MaterialsProject, "mp-1", fe2o3_spaced)>>,
    <<Rec(Custom(<<"a">>), "x-0", Fe2O3),
      Rec(Custom(<<"b">>), "x-1", Fe2O3),
      Rec(Custom(<<"a">>), "x-2", Fe2O3)>> }

\* The length of the scenario lists.
MaxScenarioLen == 3

\* The record indices of a call.
Indices == 1..(IF MaxLen > MaxScenarioLen THEN MaxLen ELSE MaxScenarioLen)

\* Two callers share the pipeline.
Callers == {1, 2}

\* --------------------------------------------------------------- the state

VARIABLES
  max_workers,   \* ETLPipeline.max_workers
  batch_size,    \* ETLPipeline.batch_size
  semaphore,     \* permits available in ETLPipeline.semaphore
  fingerprints,  \* ETLPipeline.fingerprints: fingerprint -> id
  progress,      \* ETLPipeline.progress: source -> IngestionProgress
  db,            \* ids of the materials create_material has stored
  call,          \* per caller: the locals of its open ingest call
  task,          \* per caller and record index: the spawned task
  calls,         \* history: one entry per ingest call, in start order
  successes,     \* history: [clears, fingerprint, id] of each Success
  clears,        \* number of clear_cache calls so far
  progress_lock, \* holder of the write lock of ETLPipeline.progress, 0 if free
  snapshot,      \* what the last get_progress call of a poller returned
  run,           \* the ingest command: where it is, what its fetches returned
  breaker,       \* the fields of a CircuitBreaker
  now,           \* the clock Instant::now reads
  thread,        \* per thread: the locals of its CircuitBreaker::call
  recovery,      \* the auto-recovery tasks that still sleep
  keys,          \* the two keys and the source handed to the pure functions
  ret,           \* what the last pure function applied to keys returned
  flag           \* the fields of a FeatureFlag, and its last answer

pipeline_vars == <<max_workers, batch_size, semaphore, fingerprints, progress,
                   db, call, task, calls, successes, clears>>
poll_vars == <<progress_lock, snapshot>>
run_vars == <<run>>
breaker_vars == <<breaker, now, thread, recovery>>
key_vars == <<keys, ret>>
flag_vars == <<flag>>

vars == <<pipeline_vars, poll_vars, run_vars, breaker_vars, key_vars, flag_vars>>

\* Option<u64>
Some(n) == <<n>>
\* f64 values of progress_percent, kept exact as numerator / denominator
Ratio(n, d) == [num |-> n, den |-> d]

NoOutcome == "none"
\* The result slot of a call that has not returned.
NoResult ==
  [total_records |-> -1, successful |-> 0, failed |-> 0, duplicates |-> 0,
   validation_errors |-> 0]

IdleCall ==
  [pc |-> "idle", n |-> 0, source |-> MaterialsProject, records |-> <<>>,
   total |-> 0, batch_num |-> 0, spawned |-> 0, joined |-> 0,
   successful |-> 0, failed |-> 0, duplicates |-> 0, validation_errors |-> 0,
   aborted |-> FALSE]

\* A task: where it is, whether it owns its OwnedSemaphorePermit, what
\* create_material did for it, and how it ended.
NoTask == [pc |-> "none", permit |-> FALSE, store |-> "none", outcome |-> NoOutcome]

Min(a, b) == IF a < b THEN a ELSE b

\* Semaphore::new(max_workers), batch_size: 1000 (here: any size up to MaxBatch)
InitPipeline ==
  /\ max_workers \in 0..MaxWorkers
  /\ batch_size \in 1..MaxBatch
  /\ semaphore = max_workers
  /\ fingerprints = <<>>
  /\ progress = <<>>
  /\ db = {}
  /\ call = [c \in Callers |-> IdleCall]
  /\ task = [c \in Callers |-> [i \in Indices |-> NoTask]]
  /\ calls = <<>>
  /\ successes = {}
  /\ clears = 0

\* Option<T>: None
None == <<>>

\* No get_progress call has returned yet; the lock of the progress map is free.
InitPoll ==
  /\ progress_lock = 0
  /\ snapshot = [polled |-> FALSE, source |-> MaterialsProject, value |-> None]

\* The ingest command has not been started.
IdleRun ==
  [pc |-> "none", source |-> "", limit |-> 0,
   estimate |-> [a \in {"mp", "pubchem"} |-> "Ok"],
   mp |-> "none", pubchem |-> "none", fetched |-> <<>>, error |-> FALSE]

\* The threads that share a circuit breaker.
Threads == {1, 2}

\* CircuitBreaker::new, lines 52-68, and with_timeout, lines 71-74; the last
\* two fields are history: the calls admitted and the successes recorded
\* since the breaker last went from another state to HalfOpen
CircuitBreaker_new(failure_threshold, success_threshold, timeout) ==
  [state |-> "Closed", failure_count |-> 0, success_count |-> 0,
   failure_threshold |-> failure_threshold,
   success_threshold |-> success_threshold,
   timeout |-> timeout, last_failure_time |-> None,
   total_calls |-> 0, successful_calls |-> 0, failed_calls |-> 0,
   rejected_calls |-> 0, state_transitions |-> 0,
   half_open_admitted |-> 0, half_open_successes |-> 0]

\* A thread that is not inside CircuitBreaker::call.
IdleThread ==
  [pc |-> "idle", last_failure |-> None, failures |-> 0, result |-> "none",
   invoked |-> FALSE, open |-> FALSE, closed |-> FALSE, moved |-> FALSE,
   rejected |-> 0]

\* A breaker with thresholds 1 that no thread calls.
InitIdleBreaker ==
  /\ breaker = CircuitBreaker_new(1, 1, 1)
  /\ now = 0
  /\ thread = [t \in Threads |-> IdleThread]
  /\ recovery = {}

\* No pure function has been applied: the keys are empty.
InitIdleKeys ==
  /\ keys = [k1 |-> <<>>, k2 |-> <<>>, source |-> MaterialsProject]
  /\ ret = [fn |-> "none"]

\* FeatureFlag::new(name, description)
FeatureFlag_new ==
  [strategy |-> [kind |-> "Static", on |-> FALSE], enabled |-> TRUE,
   total_checks |-> 0, true_checks |-> 0, false_checks |-> 0, last |-> "none"]

Init ==
  /\ InitPipeline
  /\ InitPoll
  /\ run = IdleRun
  /\ InitIdleBreaker
  /\ InitIdleKeys
  /\ flag = FeatureFlag_new

\* HashMap::insert
MapInsert(m, k, v) == [x \in DOMAIN m \cup {k} |-> IF x = k THEN v ELSE m[x]]

OpenCallers == {c \in Callers : call[c].pc # "idle"}
Submitted == LET RECURSIVE Sum(_)
                 Sum(i) == IF i = 0 THEN 0 ELSE Len(calls[i].records) + Sum(i - 1)
             IN Sum(Len(calls))

\* One chunk that holds all the records.
ChunkEnd_whole(c) == call[c].total

\* records.chunks(batch_size): the last index of chunk batch_num (0-based)
ChunkEnd(c) == Min((call[c].batch_num + 1) * batch_size, call[c].total)

\* One entry for all the sources.
ProgressKey_shared(source) == MaterialsProject

\* HashMap<DataSource, IngestionProgress>, lines 72, 106 and 156: the key is
\* the source argument itself (DataSource derives Hash and Eq)
ProgressKey(source) == source

\* The entry an earlier call left is kept.
ResetEntry_keep(source, total) ==
  IF source \in DOMAIN progress THEN progress[source]
  ELSE [source |-> source, processed |-> 0, total |-> Some(total),
        current_batch |-> 0, errors |-> 0, progress_percent |-> Ratio(0, 1)]

\* ingest, lines 106-113: the progress entry a call starts with
ResetEntry(source, total) ==
  [source |-> source, processed |-> 0, total |-> Some(total),
   current_batch |-> 0, errors |-> 0, progress_percent |-> Ratio(0, 1)]

\* The loop body run once whatever the list.
FirstPc_once(total) == "spawn"

\* ingest, line 122: records.chunks(batch_size) of an empty list yields no
\* chunk, so the loop body is not run
FirstPc(total) == IF total = 0 THEN "return" ELSE "spawn"

\* ingest, lines 98-119: the progress entry is reset, the counters are zero
IngestStart(c, source, records) ==
  /\ call[c].pc = "idle"
  /\ LET total == Len(records) IN
     /\ progress' = MapInsert(progress, ProgressKey(source), ResetEntry(source, total))
     /\ call' = [call EXCEPT ![c] =
          [IdleCall EXCEPT !.pc = FirstPc(total),
                           !.n = Len(calls) + 1, !.source = source,
                           !.records = records, !.total = total]]
     /\ task' = [task EXCEPT ![c] = [i \in Indices |-> NoTask]]
     /\ calls' = Append(
          [k \in 1..Len(calls) |->
             IF \E d \in OpenCallers : call[d].n = k
               THEN [calls[k] EXCEPT !.overlapped = TRUE] ELSE calls[k]],
          [source |-> source, records |-> records, clears |-> clears,
           fresh |-> (DOMAIN fingerprints = {}), overlapped |-> (OpenCallers # {}),
           cleared |-> FALSE, result |-> NoResult, outcomes |-> <<>>,
           stores |-> <<>>, returned |-> "none"])
  /\ UNCHANGED <<max_workers, batch_size, semaphore, fingerprints, db,
                 successes, clears>>

\* A permit handed out whatever the count.
CanAcquire_unbounded(permits) == TRUE

\* Semaphore::acquire_owned, line 126: waits until a permit is available
CanAcquire(permits) == permits > 0

\* ingest, lines 125-138: acquire_owned().await, then tokio::spawn
Spawn(c) ==
  /\ call[c].pc = "spawn"
  /\ CanAcquire(semaphore)
  /\ LET i == call[c].spawned + 1 IN
     /\ semaphore' = semaphore - 1
     /\ task' = [task EXCEPT ![c][i] = [NoTask EXCEPT !.pc = "check", !.permit = TRUE]]
     /\ call' = [call EXCEPT ![c].spawned = i,
                             ![c].pc = IF i = ChunkEnd(c) THEN "join" ELSE "spawn"]
  /\ UNCHANGED <<max_workers, batch_size, fingerprints, progress, db, calls,
                 successes, clears>>

\* A record whose fingerprint is in the cache is stored all the same.
Classify_noDedup(valid, present) ==
  IF ~valid THEN "ValidationError" ELSE "create"

\* process_record, lines 196-209: the early returns before the storage call
Classify(valid, present) ==
  IF ~valid THEN "ValidationError"
  ELSE IF present THEN "Duplicate"
  ELSE "create"

\* process_record, lines 194-212: validate, then the dedup check under the
\* read lock; transform_to_material always returns Ok
Check(c, i) ==
  /\ task[c][i].pc = "check"
  /\ LET record == call[c].records[i]
         fingerprint == generate_fingerprint(record)
         verdict == Classify(validate_record(record),
                             fingerprint \in DOMAIN fingerprints) IN
     task' = [task EXCEPT ![c][i] =
       IF verdict = "create"
         THEN [@ EXCEPT !.pc = "create"]
         ELSE [@ EXCEPT !.pc = "drop", !.outcome = verdict]]
  /\ UNCHANGED <<max_workers, batch_size, semaphore, fingerprints, progress,
                 db, call, calls, successes, clears>>

\* The id create_material returns: unique per stored material.
NewId(c, i) == <<call[c].n, i>>

StoreOutcomes == {"Ok", "Err", "Panic"}

\* The fingerprint is stored whatever create_material did.
AfterCreate_alwaysInsert(outcome) == "insert"

\* A failed storage call is made again.
AfterCreate_retry(outcome) == IF outcome = "Ok" THEN "insert" ELSE "create"

\* process_record, lines 215-227: the Ok arm goes on to the insertion, the
\* Err arm (and a panic) ends the task
AfterCreate(outcome) == IF outcome = "Ok" THEN "insert" ELSE "drop"

\* process_record, lines 215-227: db.create_material(&material).await
\* returns Ok(id), returns Err, or panics
CreateReturn(c, i, outcome) ==
  /\ task[c][i].pc = "create"
  /\ db' = IF outcome = "Ok" THEN db \cup {NewId(c, i)} ELSE db
  /\ task' = [task EXCEPT
       ![c][i].store = outcome,
       ![c][i].pc = AfterCreate(outcome),
       ![c][i].outcome = IF AfterCreate(outcome) = "drop" THEN outcome ELSE @]
  /\ UNCHANGED <<max_workers, batch_size, semaphore, fingerprints, progress,
                 call, calls, successes, clears>>

\* The fingerprint is not stored.
CacheInsert_skip(fps, fingerprint, id) == fps

\* The nil id is stored instead of the id of the material.
CacheInsert_nil(fps, fingerprint, id) == MapInsert(fps, fingerprint, <<0, 0>>)

\* process_record, line 219: fps.insert(fingerprint, id)
CacheInsert(fps, fingerprint, id) == MapInsert(fps, fingerprint, id)

\* process_record, lines 216-222: fps.insert(fingerprint, id) under the
\* write lock, then Ok(ProcessResult::Success)
Insert(c, i) ==
  /\ task[c][i].pc = "insert"
  /\ LET fingerprint == generate_fingerprint(call[c].records[i]) IN
     /\ fingerprints' = CacheInsert(fingerprints, fingerprint, NewId(c, i))
     /\ successes' = successes \cup
          {[clears |-> clears, fingerprint |-> fingerprint, id |-> NewId(c, i)]}
  /\ task' = [task EXCEPT ![c][i].pc = "drop", ![c][i].outcome = "Success"]
  /\ UNCHANGED <<max_workers, batch_size, semaphore, progress, db, call,
                 calls, clears>>

\* The permit of a panicked task is lost.
Released_leak(t) == IF t.outcome = "Panic" THEN 0 ELSE 1

\* OwnedSemaphorePermit::drop: the one permit goes back, at drop(permit) on
\* line 133 or, after a panic, when the runtime drops the task's future
Released(t) == 1

\* The task ends, lines 131-135: the permit is dropped (by drop(permit), or
\* with the future when the task panicked) and the JoinHandle resolves
DropPermit(c, i) ==
  /\ task[c][i].pc = "drop"
  /\ semaphore' = semaphore + Released(task[c][i])
  /\ task' = [task EXCEPT ![c][i].pc = "done",
                          ![c][i].permit = (Released(task[c][i]) = 0)]
  /\ UNCHANGED <<max_workers, batch_size, fingerprints, progress, db, call,
                 calls, successes, clears>>

\* A JoinError is not counted.
FailedArm_noJoinError(o) == o = "Err"

\* ingest, line 146: Ok(Err(_)) | Err(_) => failed += 1
FailedArm(o) == o \in {"Err", "Panic"}

\* The handle yields before its task has ended.
HandleResolved_early(t) == TRUE

\* JoinHandle::await, line 142: resolves once the task has ended
HandleResolved(t) == t.pc = "done"

\* A failed task ends the call, as handle.await? would.
Propagates_question(o) == o \in {"Err", "Panic"}

\* ingest, lines 142-147: no arm of the match returns from ingest
Propagates(o) == FALSE

\* ingest, lines 141-148: handle.await of the next handle, and the tally
Join(c) ==
  /\ call[c].pc = "join"
  /\ LET i == call[c].joined + 1
         o == task[c][i].outcome IN
     /\ HandleResolved(task[c][i])
     /\ call' = [call EXCEPT
          ![c].joined = i,
          ![c].successful = IF o = "Success" THEN @ + 1 ELSE @,
          ![c].duplicates = IF o = "Duplicate" THEN @ + 1 ELSE @,
          ![c].validation_errors = IF o = "ValidationError" THEN @ + 1 ELSE @,
          ![c].failed = IF FailedArm(o) THEN @ + 1 ELSE @,
          ![c].aborted = Propagates(o),
          ![c].pc = IF Propagates(o) THEN "return"
                    ELSE IF i = ChunkEnd(c) THEN "progress" ELSE "join"]
  /\ UNCHANGED <<max_workers, batch_size, semaphore, fingerprints, progress,
                 db, task, calls, successes, clears>>

\* The end of the batch, not clipped to the total.
batch_processed_unclipped(batch_num, size, total) == (batch_num + 1) * size

\* ingest, line 151: ((batch_num + 1) * self.batch_size).min(total)
batch_processed(batch_num, size, total) == Min((batch_num + 1) * size, total)

\* ingest, lines 157-158: prog.processed and prog.current_batch
FirstFields(entry, c) ==
  [entry EXCEPT
     !.processed = batch_processed(call[c].batch_num, batch_size, call[c].total),
     !.current_batch = call[c].batch_num + 1]

\* ingest, lines 159-160: prog.errors and prog.progress_percent
SecondFields(entry, c) ==
  LET processed == batch_processed(call[c].batch_num, batch_size, call[c].total) IN
  [entry EXCEPT
     !.errors = call[c].failed + call[c].validation_errors,
     !.progress_percent = Ratio(processed * 100, call[c].total)]

\* ingest, lines 151-161: the fields written under the write lock
BatchEntry(entry, c) == SecondFields(FirstFields(entry, c), c)

\* The loop ends after its first batch.
AfterBatch_once(c) == [call[c] EXCEPT !.batch_num = @ + 1, !.pc = "return"]

\* ingest, line 122: the next chunk if there is one, else the end of the loop
AfterBatch(c) ==
  [call[c] EXCEPT
     !.batch_num = @ + 1,
     !.pc = IF (call[c].batch_num + 1) * batch_size < call[c].total
              THEN "spawn" ELSE "return"]

\* ingest, lines 150-166: the progress entry after the batch, then the next
\* chunk if there is one
UpdateProgress(c) ==
  /\ call[c].pc = "progress"
  /\ LET source == ProgressKey(call[c].source)
         total == call[c].total IN
     /\ progress' =
          IF source \in DOMAIN progress
            THEN [progress EXCEPT ![source] = BatchEntry(@, c)]
            ELSE progress
     /\ call' = [call EXCEPT ![c] = AfterBatch(c)]
  /\ UNCHANGED <<max_workers, batch_size, semaphore, fingerprints, db, task,
                 calls, successes, clears>>

\* ingest, lines 155-158: the write lock of the progress map is taken, then
\* processed and current_batch are written
ProgressLock(c) ==
  /\ call[c].pc = "progress"
  /\ progress_lock = 0
  /\ progress_lock' = c
  /\ LET source == ProgressKey(call[c].source) IN
     progress' =
       IF source \in DOMAIN progress
         THEN [progress EXCEPT ![source] = FirstFields(@, c)]
         ELSE progress
  /\ call' = [call EXCEPT ![c].pc = "writing"]
  /\ UNCHANGED <<max_workers, batch_size, semaphore, fingerprints, db, task,
                 calls, successes, clears, snapshot>>

\* ingest, lines 159-162: errors and progress_percent are written, then the
\* guard is dropped
ProgressUnlock(c) ==
  /\ call[c].pc = "writing"
  /\ progress_lock = c
  /\ progress_lock' = 0
  /\ LET source == ProgressKey(call[c].source) IN
     progress' =
       IF source \in DOMAIN progress
         THEN [progress EXCEPT ![source] = SecondFields(@, c)]
         ELSE progress
  /\ call' = [call EXCEPT ![c] = AfterBatch(c)]
  /\ UNCHANGED <<max_workers, batch_size, semaphore, fingerprints, db, task,
                 calls, successes, clears, snapshot>>

\* A read that does not wait for the writer.
CanRead_unlocked(lock) == TRUE

\* RwLock::read, line 293: waits while a writer holds the lock
CanRead(lock) == lock = 0

\* get_progress, lines 292-294: a clone of the entry of the source, made
\* under the read lock
GetProgress(source) ==
  /\ CanRead(progress_lock)
  /\ snapshot' =
       [polled |-> TRUE, source |-> source,
        value |-> IF source \in DOMAIN progress
                    THEN Some(progress[source]) ELSE None]
  /\ UNCHANGED <<pipeline_vars, progress_lock>>

\* ingest, lines 168-185: Ok(IngestionResult)
IngestReturn(c) ==
  /\ call[c].pc = "return"
  /\ calls' = [calls EXCEPT
       ![call[c].n].result =
         [total_records |-> call[c].total, successful |-> call[c].successful,
          failed |-> call[c].failed, duplicates |-> call[c].duplicates,
          validation_errors |-> call[c].validation_errors],
       ![call[c].n].outcomes = [i \in 1..call[c].total |-> task[c][i].outcome],
       ![call[c].n].stores = [i \in 1..call[c].total |-> task[c][i].store],
       ![call[c].n].returned = IF call[c].aborted THEN "Err" ELSE "Ok"]
  /\ call' = [call EXCEPT ![c] = IdleCall]
  /\ UNCHANGED <<max_workers, batch_size, semaphore, fingerprints, progress,
                 db, task, successes, clears>>

\* The map is left as it is.
Cleared_keep(fps) == fps

\* HashMap::clear, line 303
Cleared(fps) == <<>>

\* clear_cache, lines 302-305
ClearCache ==
  /\ clears < MaxClears
  /\ fingerprints' = Cleared(fingerprints)
  /\ clears' = clears + 1
  /\ calls' = [k \in 1..Len(calls) |->
       IF \E d \in OpenCallers : call[d].n = k
         THEN [calls[k] EXCEPT !.cleared = TRUE] ELSE calls[k]]
  /\ UNCHANGED <<max_workers, batch_size, semaphore, progress, db, call, task,
                 successes>>

\* What the callers of a run do: the callers are interchangeable, so the
\* lowest idle one calls next; two calls open at once are for different
\* sources (calls open at once for one source are not supported).
Admitted(c, source) ==
  /\ \A d \in Callers : d < c => call[d].pc # "idle"
  /\ \A d \in OpenCallers : call[d].source # source

\* What a step of the pipeline leaves alone.
Rest == <<poll_vars, run_vars, breaker_vars, key_vars, flag_vars>>

Next ==
  \/ \E c \in Callers, source \in SourceArgs, records \in RecordLists :
       /\ Admitted(c, source)
       /\ Len(calls) < MaxCalls
       /\ Submitted + Len(records) <= MaxRecords
       /\ IngestStart(c, source, records)
       /\ UNCHANGED Rest
  \/ \E c \in Callers : Spawn(c) /\ UNCHANGED Rest
  \/ \E c \in Callers, i \in Indices : Check(c, i) /\ UNCHANGED Rest
  \/ \E c \in Callers, i \in Indices, outcome \in StoreOutcomes :
       CreateReturn(c, i, outcome) /\ UNCHANGED Rest
  \/ \E c \in Callers, i \in Indices : Insert(c, i) /\ UNCHANGED Rest
  \/ \E c \in Callers, i \in Indices : DropPermit(c, i) /\ UNCHANGED Rest
  \/ \E c \in Callers : Join(c) /\ UNCHANGED Rest
  \/ \E c \in Callers : UpdateProgress(c) /\ UNCHANGED Rest
  \/ \E c \in Callers : IngestReturn(c) /\ UNCHANGED Rest
  \/ ClearCache /\ UNCHANGED Rest

Spec == Init /\ [][Next]_vars

\* The documented scenarios: one caller, its calls one after the other for
\* one source, each with one of the scenario lists; the cache is cleared
\* between calls only.
NextScenario ==
  \/ \E records \in ScenarioLists :
       /\ Len(calls) < MaxCalls
       /\ IngestStart(1, MaterialsProject, records)
       /\ UNCHANGED Rest
  \/ Spawn(1) /\ UNCHANGED Rest
  \/ \E i \in Indices : Check(1, i) /\ UNCHANGED Rest
  \/ \E i \in Indices, outcome \in StoreOutcomes :
       CreateReturn(1, i, outcome) /\ UNCHANGED Rest
  \/ \E i \in Indices : Insert(1, i) /\ UNCHANGED Rest
  \/ \E i \in Indices : DropPermit(1, i) /\ UNCHANGED Rest
  \/ Join(1) /\ UNCHANGED Rest
  \/ UpdateProgress(1) /\ UNCHANGED Rest
  \/ IngestReturn(1) /\ UNCHANGED Rest
  \/ (OpenCallers = {} /\ ClearCache /\ UNCHANGED Rest)

SpecScenario == Init /\ [][NextScenario]_vars

\* The lists ingested while a poller watches: the empty one, and the one
\* whose first record fails validation.
PollLists ==
  { <<>>,
    <<Rec(MaterialsProject, "mp-3", NoLetters),
      Rec(MaterialsProject, "mp-2", Al2O3),
      Rec(MaterialsProject, "mp-1", fe2o3_spaced)>> }

\* A poller calls get_progress while one caller ingests; the steps of ingest
\* that hold the write lock of the progress map are taken one by one.
NextPoll ==
  \/ \E source \in SourceArgs, records \in PollLists :
       /\ Len(calls) < MaxCalls
       /\ progress_lock = 0
       /\ IngestStart(1, source, records)
       /\ UNCHANGED Rest
  \/ Spawn(1) /\ UNCHANGED Rest
  \/ \E i \in Indices : Check(1, i) /\ UNCHANGED Rest
  \/ \E i \in Indices, outcome \in StoreOutcomes :
       CreateReturn(1, i, outcome) /\ UNCHANGED Rest
  \/ \E i \in Indices : Insert(1, i) /\ UNCHANGED Rest
  \/ \E i \in Indices : DropPermit(1, i) /\ UNCHANGED Rest
  \/ Join(1) /\ UNCHANGED Rest
  \/ ProgressLock(1) /\ UNCHANGED <<run_vars, breaker_vars, key_vars, flag_vars>>
  \/ ProgressUnlock(1) /\ UNCHANGED <<run_vars, breaker_vars, key_vars, flag_vars>>
  \/ IngestReturn(1) /\ UNCHANGED Rest
  \/ \E source \in SourceArgs :
       GetProgress(source) /\ UNCHANGED <<run_vars, breaker_vars, key_vars, flag_vars>>

SpecPoll == Init /\ [][NextPoll]_vars

\* ------------------------------------------------------- the ingest command

\* Most records one fetch of the model returns.
MaxFetch == 2
\* fetch, lines 355 and 398: limit.unwrap_or(100).min(1000)
FetchCap == 1000

\* Display of a small unsigned integer
Digit(d) ==
  CASE d = 0 -> "0" [] d = 1 -> "1" [] d = 2 -> "2" [] d = 3 -> "3"
    [] d = 4 -> "4" [] d = 5 -> "5" [] d = 6 -> "6" [] d = 7 -> "7"
    [] d = 8 -> "8" [] d = 9 -> "9"

RECURSIVE Decimal(_)
Decimal(n) ==
  IF n < 10 THEN <<Digit(n)>> ELSE Decimal(n \div 10) \o <<Digit(n % 10)>>

\* format!("mp-{}", i) and format!("CID{}", 1000 + i), for the first records
MpId(i) == CASE i = 0 -> "mp-0" [] i = 1 -> "mp-1" [] i = 2 -> "mp-2"
CidId(i) == CASE i = 0 -> "CID1000" [] i = 1 -> "CID1001" [] i = 2 -> "CID1002"

\* MaterialsProjectAdapter::fetch, lines 349-377
MaterialsProjectFetch(limit) ==
  [j \in 1..Min(limit, FetchCap) |->
     LET i == j - 1 IN
     Rec(MaterialsProject, MpId(i),
         <<"F", "e">> \o Decimal(2 + (i % 3)) \o <<"O">> \o Decimal(3 + (i % 2)))]

\* PubChemAdapter::fetch, lines 394-418
PubChemFetch(limit) ==
  [j \in 1..Min(limit, FetchCap) |->
     LET i == j - 1 IN
     Rec(PubChem, CidId(i),
         <<"C">> \o Decimal(6 + (i % 10)) \o <<"H">> \o Decimal(12 + (i % 8)))]

\* ingest.rs, lines 32-33
should_ingest_mp(source) == source = "all" \/ source = "materials-project"
should_ingest_pubchem(source) == source = "all" \/ source = "pubchem"

\* The --source arguments of the model, one of them naming no source.
RunSources == {"all", "materials-project", "pubchem", "icsd"}

\* What fetch and estimate_count of an adapter may return.
AdapterResults == {"Ok", "Err"}

\* run, lines 10-36: the arguments are read, the database is connected and
\* the pipeline is built; the adapters are those the run will use
RunStart(source, limit, estimate) ==
  /\ run.pc = "none"
  /\ run' = [IdleRun EXCEPT !.pc = "mp", !.source = source, !.limit = limit,
                            !.estimate = estimate]
  /\ UNCHANGED <<pipeline_vars, poll_vars, breaker_vars,
               key_vars, flag_vars>>

\* The failed fetch is passed over.
AfterFetch_ignore(result, next) == next

\* The ? of lines 43 and 68: an Err of fetch is returned from run
AfterFetch(result, next) == IF result = "Err" THEN "aborted" ELSE next

\* run, lines 39-43: the Materials Project adapter is asked for its records
FetchMP(result) ==
  /\ run.pc = "mp"
  /\ run' =
       IF should_ingest_mp(run.source)
         THEN [run EXCEPT
                 !.mp = result,
                 !.fetched = IF result = "Ok"
                               THEN MaterialsProjectFetch(run.limit) ELSE <<>>,
                 !.error = (AfterFetch(result, "mp_ingest") = "aborted"),
                 !.pc = AfterFetch(result, "mp_ingest")]
         ELSE [run EXCEPT !.mp = "skipped", !.pc = "pubchem"]
  /\ UNCHANGED <<pipeline_vars, poll_vars, breaker_vars,
               key_vars, flag_vars>>

\* run, lines 45-48: pipeline.ingest(DataSource::MaterialsProject, mp_data)
IngestMP ==
  /\ run.pc = "mp_ingest"
  /\ IngestStart(1, MaterialsProject, run.fetched)
  /\ run' = [run EXCEPT !.pc = "mp_wait"]
  /\ UNCHANGED <<poll_vars, breaker_vars,
               key_vars, flag_vars>>

\* run, lines 48-61: ingest has returned Ok, the results are logged
ReturnMP ==
  /\ run.pc = "mp_wait"
  /\ IngestReturn(1)
  /\ run' = [run EXCEPT !.pc = "pubchem"]
  /\ UNCHANGED <<poll_vars, breaker_vars,
               key_vars, flag_vars>>

\* run, lines 64-68: the PubChem adapter is asked for its records
FetchPubChem(result) ==
  /\ run.pc = "pubchem"
  /\ run' =
       IF should_ingest_pubchem(run.source)
         THEN [run EXCEPT
                 !.pubchem = result,
                 !.fetched = IF result = "Ok"
                               THEN PubChemFetch(run.limit) ELSE <<>>,
                 !.error = (AfterFetch(result, "pubchem_ingest") = "aborted"),
                 !.pc = AfterFetch(result, "pubchem_ingest")]
         ELSE [run EXCEPT !.pubchem = "skipped", !.pc = "done"]
  /\ UNCHANGED <<pipeline_vars, poll_vars, breaker_vars,
               key_vars, flag_vars>>

\* run, lines 70-73: pipeline.ingest(DataSource::PubChem, pubchem_data)
IngestPubChem ==
  /\ run.pc = "pubchem_ingest"
  /\ IngestStart(1, PubChem, run.fetched)
  /\ run' = [run EXCEPT !.pc = "pubchem_wait"]
  /\ UNCHANGED <<poll_vars, breaker_vars,
               key_vars, flag_vars>>

\* run, lines 73-117: ingest has returned Ok, the summary is logged, Ok(())
ReturnPubChem ==
  /\ run.pc = "pubchem_wait"
  /\ IngestReturn(1)
  /\ run' = [run EXCEPT !.pc = "done"]
  /\ UNCHANGED <<poll_vars, breaker_vars,
               key_vars, flag_vars>>

NextRun ==
  \/ \E source \in RunSources, limit \in 0..MaxFetch,
        estimate \in [{"mp", "pubchem"} -> AdapterResults] :
       RunStart(source, limit, estimate)
  \/ \E result \in AdapterResults : FetchMP(result)
  \/ IngestMP
  \/ ReturnMP
  \/ \E result \in AdapterResults : FetchPubChem(result)
  \/ IngestPubChem
  \/ ReturnPubChem
  \/ Spawn(1) /\ UNCHANGED Rest
  \/ \E i \in Indices : Check(1, i) /\ UNCHANGED Rest
  \/ \E i \in Indices, outcome \in StoreOutcomes :
       CreateReturn(1, i, outcome) /\ UNCHANGED Rest
  \/ \E i \in Indices : Insert(1, i) /\ UNCHANGED Rest
  \/ \E i \in Indices : DropPermit(1, i) /\ UNCHANGED Rest
  \/ Join(1) /\ UNCHANGED Rest
  \/ UpdateProgress(1) /\ UNCHANGED Rest

SpecRun == Init /\ [][NextRun]_vars

\* ------------------------------------------------------ the circuit breaker

\* Largest failure_threshold and success_threshold of the model.
MaxThreshold == 2
\* Largest recovery timeout of the model, in ticks of the clock.
MaxTimeout == 2
\* Last tick of the clock.
MaxTime == 3
\* Number of CircuitBreaker::call calls over one run.
MaxBreakerCalls == 3

\* Open, with a failure recorded less than the timeout ago.
OpenFresh ==
  /\ breaker.state = "Open"
  /\ breaker.last_failure_time # None
  /\ now - breaker.last_failure_time[1] < breaker.timeout

\* The positions of call before it has admitted or rejected.
PreDecision == {"check", "last_failure", "elapsed", "half_open", "decide", "load"}

\* Per call in progress: whether the breaker has been Open with the timeout
\* not elapsed, and whether it has been Closed, in every state since the call
\* began and up to its decision. The states after the call itself has taken
\* the breaker out of Open (moved) do not count against open.
Watch(th) ==
  [t \in Threads |->
     IF thread[t].pc \in PreDecision
       THEN [th[t] EXCEPT !.open = @ /\ (OpenFresh \/ thread[t].moved),
                          !.closed = @ /\ breaker.state = "Closed"]
       ELSE th[t]]

\* The thread goes on to pc with the other locals as they are.
Goto(t, pc) == Watch([thread EXCEPT ![t].pc = pc])

\* The call of thread t returns.
Return(t, result) ==
  Watch([thread EXCEPT ![t].pc = "idle", ![t].result = result,
                       ![t].rejected = IF result = "CircuitOpen" THEN @ + 1 ELSE @])

\* call, line 94: total_calls.fetch_add(1)
CallBegin(t) ==
  /\ thread[t].pc = "idle"
  /\ breaker.total_calls < MaxBreakerCalls
  /\ breaker' = [breaker EXCEPT !.total_calls = @ + 1]
  /\ thread' = Watch([thread EXCEPT ![t] =
       [IdleThread EXCEPT !.pc = "check", !.open = OpenFresh,
                          !.closed = (breaker.state = "Closed"),
                          !.rejected = thread[t].rejected]])
  /\ UNCHANGED <<now, recovery>>

\* check_and_transition, lines 132-135: the state is read
CheckState(t) ==
  /\ thread[t].pc = "check"
  /\ thread' = Goto(t, IF breaker.state # "Open" THEN "decide" ELSE "last_failure")
  /\ UNCHANGED <<breaker, now, recovery>>

\* check_and_transition, lines 137-138: the time of the last failure is read
ReadLastFailure(t) ==
  /\ thread[t].pc = "last_failure"
  /\ thread' = Watch([thread EXCEPT
       ![t].last_failure = breaker.last_failure_time,
       ![t].pc = IF breaker.last_failure_time = None THEN "decide" ELSE "elapsed"])
  /\ UNCHANGED <<breaker, now, recovery>>

\* Instant::elapsed, line 139: last_failure.elapsed() >= self.timeout
Elapsed(since, timeout) == now - since >= timeout

\* check_and_transition, line 139: the clock is read
ReadClock(t) ==
  /\ thread[t].pc = "elapsed"
  /\ thread' = Goto(t, IF Elapsed(thread[t].last_failure[1], breaker.timeout)
                         THEN "half_open" ELSE "decide")
  /\ UNCHANGED <<breaker, now, recovery>>

\* check_and_transition, lines 140-144: Open to HalfOpen
ToHalfOpen(t) ==
  /\ thread[t].pc = "half_open"
  /\ breaker' = [breaker EXCEPT !.state = "HalfOpen", !.success_count = 0,
                                !.state_transitions = @ + 1,
                                !.half_open_admitted =
                                   IF breaker.state = "HalfOpen" THEN @ ELSE 0,
                                !.half_open_successes =
                                   IF breaker.state = "HalfOpen" THEN @ ELSE 0]
  /\ thread' = Watch([thread EXCEPT ![t].pc = "decide", ![t].moved = TRUE])
  /\ UNCHANGED <<now, recovery>>

\* should_allow_call, lines 119-127: the match on the state
Admits(state) ==
  CASE state = "Closed" -> "allow"
    [] state = "Open" -> "reject"
    [] state = "HalfOpen" -> "load"

\* should_allow_call, lines 119-122, and call, lines 97-100: the state is
\* read; when it is Open the call is rejected
Decide(t) ==
  /\ thread[t].pc = "decide"
  /\ LET a == Admits(breaker.state) IN
     /\ breaker' = [breaker EXCEPT
          !.rejected_calls = IF a = "reject" THEN @ + 1 ELSE @]
     /\ thread' =
          CASE a = "allow" ->
                 Watch([thread EXCEPT ![t].pc = "invoke", ![t].invoked = TRUE])
            [] a = "reject" -> Return(t, "CircuitOpen")
            [] a = "load" -> Goto(t, "load")
  /\ UNCHANGED <<now, recovery>>

\* should_allow_call, line 125, and call, lines 97-100: in HalfOpen the call
\* is let through while success_count < success_threshold
LoadSuccessCount(t) ==
  /\ thread[t].pc = "load"
  /\ LET allow == breaker.success_count < breaker.success_threshold IN
     /\ breaker' = [breaker EXCEPT
          !.rejected_calls = IF allow THEN @ ELSE @ + 1,
          !.half_open_admitted =
             IF allow /\ breaker.state = "HalfOpen" THEN @ + 1 ELSE @]
     /\ thread' =
          IF allow
            THEN Watch([thread EXCEPT ![t].pc = "invoke", ![t].invoked = TRUE])
            ELSE Return(t, "CircuitOpen")
  /\ UNCHANGED <<now, recovery>>

\* call, line 103: f().await has returned Ok or Err
FnReturn(t, r) ==
  /\ thread[t].pc = "invoke"
  /\ thread' = Goto(t, IF r = "Ok" THEN "success" ELSE "failure")
  /\ UNCHANGED <<breaker, now, recovery>>

\* record_success, lines 151-153 and 170-173: successful_calls.fetch_add(1),
\* then the state is read; in Open there is nothing more to do
SuccessState(t) ==
  /\ thread[t].pc = "success"
  /\ breaker' = [breaker EXCEPT !.successful_calls = @ + 1]
  /\ thread' =
       CASE breaker.state = "Closed" -> Goto(t, "success_closed")
         [] breaker.state = "HalfOpen" -> Goto(t, "success_half")
         [] breaker.state = "Open" -> Return(t, "Ok")
  /\ UNCHANGED <<now, recovery>>

\* record_success, lines 155-158: failure_count.store(0)
SuccessClosed(t) ==
  /\ thread[t].pc = "success_closed"
  /\ breaker' = [breaker EXCEPT !.failure_count = 0]
  /\ thread' = Return(t, "Ok")
  /\ UNCHANGED <<now, recovery>>

\* record_success, lines 160-161: success_count.fetch_add(1) + 1
SuccessHalfOpen(t) ==
  /\ thread[t].pc = "success_half"
  /\ breaker' = [breaker EXCEPT
       !.success_count = @ + 1,
       !.half_open_successes = IF breaker.state = "HalfOpen" THEN @ + 1 ELSE @]
  /\ thread' =
       IF breaker.success_count + 1 >= breaker.success_threshold
         THEN Goto(t, "close") ELSE Return(t, "Ok")
  /\ UNCHANGED <<now, recovery>>

\* record_success, lines 162-167: HalfOpen to Closed
ToClosed(t) ==
  /\ thread[t].pc = "close"
  /\ breaker' = [breaker EXCEPT !.state = "Closed", !.failure_count = 0,
                                !.success_count = 0,
                                !.state_transitions = @ + 1]
  /\ thread' = Return(t, "Ok")
  /\ UNCHANGED <<now, recovery>>

\* record_failure, lines 179-181: failed_calls.fetch_add(1) and
\* failure_count.fetch_add(1) + 1
FailureCount(t) ==
  /\ thread[t].pc = "failure"
  /\ breaker' = [breaker EXCEPT !.failed_calls = @ + 1, !.failure_count = @ + 1]
  /\ thread' = Watch([thread EXCEPT ![t].failures = breaker.failure_count + 1,
                                    ![t].pc = "failure_state"])
  /\ UNCHANGED <<now, recovery>>

\* record_failure, lines 183-186 and 198: the state is read
FailureState(t) ==
  /\ thread[t].pc = "failure_state"
  /\ thread' =
       IF breaker.state = "Open" THEN Goto(t, "stamp")
       ELSE IF thread[t].failures >= breaker.failure_threshold
         THEN Goto(t, "open")
       ELSE Return(t, "CallFailed")
  /\ UNCHANGED <<breaker, now, recovery>>

\* record_failure, lines 187-195: to Open, the time of the failure is stored
\* and the auto-recovery task is spawned
ToOpen(t) ==
  /\ thread[t].pc = "open"
  /\ breaker' = [breaker EXCEPT !.state = "Open",
                                !.last_failure_time = Some(now),
                                !.state_transitions = @ + 1]
  /\ recovery' = recovery \cup
       {[wake |-> now + breaker.timeout, n |-> breaker.state_transitions]}
  /\ thread' = Return(t, "CallFailed")
  /\ UNCHANGED now

\* record_failure, lines 198-201: already Open, the time is stored
Stamp(t) ==
  /\ thread[t].pc = "stamp"
  /\ breaker' = [breaker EXCEPT !.last_failure_time = Some(now)]
  /\ thread' = Return(t, "CallFailed")
  /\ UNCHANGED <<now, recovery>>

\* spawn_auto_recovery, lines 212-222: after sleep(timeout), Open to HalfOpen
AutoRecovery(r) ==
  /\ r \in recovery
  /\ now >= r.wake
  /\ recovery' = recovery \ {r}
  /\ breaker' =
       IF breaker.state = "Open"
         THEN [breaker EXCEPT !.state = "HalfOpen", !.state_transitions = @ + 1,
                              !.half_open_admitted = 0,
                              !.half_open_successes = 0]
         ELSE breaker
  /\ thread' = Watch(thread)
  /\ UNCHANGED now

\* Time passes.
Tick ==
  /\ now < MaxTime
  /\ now' = now + 1
  /\ thread' = Watch(thread)
  /\ UNCHANGED <<breaker, recovery>>

\* The breakers of the model: every threshold from 1 and every timeout from 1
\* up to the bounds.
InitBreaker ==
  /\ \E ft \in 1..MaxThreshold, st \in 1..MaxThreshold, timeout \in 1..MaxTimeout :
       breaker = CircuitBreaker_new(ft, st, timeout)
  /\ now = 0
  /\ thread = [t \in Threads |-> IdleThread]
  /\ recovery = {}
  /\ max_workers = MaxWorkers
  /\ batch_size = MaxBatch
  /\ semaphore = max_workers
  /\ fingerprints = <<>>
  /\ progress = <<>>
  /\ db = {}
  /\ call = [c \in Callers |-> IdleCall]
  /\ task = [c \in Callers |-> [i \in Indices |-> NoTask]]
  /\ calls = <<>>
  /\ successes = {}
  /\ clears = 0
  /\ InitPoll
  /\ run = IdleRun
  /\ InitIdleKeys
  /\ flag = FeatureFlag_new

\* What a step of the breaker leaves alone.
NotBreaker == <<pipeline_vars, poll_vars, run_vars, key_vars, flag_vars>>

NextBreaker ==
  \/ \E t \in Threads : CallBegin(t) /\ UNCHANGED NotBreaker
  \/ \E t \in Threads : CheckState(t) /\ UNCHANGED NotBreaker
  \/ \E t \in Threads : ReadLastFailure(t) /\ UNCHANGED NotBreaker
  \/ \E t \in Threads : ReadClock(t) /\ UNCHANGED NotBreaker
  \/ \E t \in Threads : ToHalfOpen(t) /\ UNCHANGED NotBreaker
  \/ \E t \in Threads : Decide(t) /\ UNCHANGED NotBreaker
  \/ \E t \in Threads : LoadSuccessCount(t) /\ UNCHANGED NotBreaker
  \/ \E t \in Threads, r \in {"Ok", "Err"} : FnReturn(t, r) /\ UNCHANGED NotBreaker
  \/ \E t \in Threads : SuccessState(t) /\ UNCHANGED NotBreaker
  \/ \E t \in Threads : SuccessClosed(t) /\ UNCHANGED NotBreaker
  \/ \E t \in Threads : SuccessHalfOpen(t) /\ UNCHANGED NotBreaker
  \/ \E t \in Threads : ToClosed(t) /\ UNCHANGED NotBreaker
  \/ \E t \in Threads : FailureCount(t) /\ UNCHANGED NotBreaker
  \/ \E t \in Threads : FailureState(t) /\ UNCHANGED NotBreaker
  \/ \E t \in Threads : ToOpen(t) /\ UNCHANGED NotBreaker
  \/ \E t \in Threads : Stamp(t) /\ UNCHANGED NotBreaker
  \/ \E r \in recovery : AutoRecovery(r) /\ UNCHANGED NotBreaker
  \/ Tick /\ UNCHANGED NotBreaker

SpecBreaker == InitBreaker /\ [][NextBreaker]_vars

\* ------------------------------------------- ingest under fair scheduling

\* The lists ingested by the calls that share the semaphore: two records, so
\* that a batch is larger than a pool of one worker.
LiveLists ==
  {<<Rec(MaterialsProject, "mp-1", Fe2O3), Rec(MaterialsProject, "mp-2", NoLetters)>>,
   <<Rec(PubChem, "CID1000", Al2O3), Rec(PubChem, "CID1001", Fe2O3)>>}

\* A pipeline with at least one worker.
InitLive ==
  /\ Init
  /\ max_workers >= 1

\* The future of ingest call c is polled: the scheduling loop of lines
\* 122-148 and what follows it.
Scheduler(c) ==
  /\ Spawn(c) \/ Join(c) \/ UpdateProgress(c) \/ IngestReturn(c)
  /\ UNCHANGED Rest

\* The spawned task of record i of call c is polled; create_material returns
\* one of its outcomes.
Worker(c, i) ==
  /\ \/ Check(c, i)
     \/ \E outcome \in StoreOutcomes : CreateReturn(c, i, outcome)
     \/ Insert(c, i)
     \/ DropPermit(c, i)
  /\ UNCHANGED Rest

NextLive ==
  \/ \E c \in Callers, source \in SourceArgs, records \in LiveLists :
       /\ Admitted(c, source)
       /\ Len(calls) < MaxCalls
       /\ IngestStart(c, source, records)
       /\ UNCHANGED Rest
  \/ \E c \in Callers : Scheduler(c)
  \/ \E c \in Callers, i \in Indices : Worker(c, i)

\* The tokio runtime polls every task that can make progress, the semaphore
\* hands a free permit to a waiter, and create_material returns.
Fairness ==
  /\ \A c \in Callers : WF_vars(Scheduler(c))
  /\ \A c \in Callers, i \in Indices : WF_vars(Worker(c, i))

SpecLive == InitLive /\ [][NextLive]_vars /\ Fairness

\* ------------------------------------------------------ the pure functions

\* Longest key handed to the pure functions.
MaxKeyLen == 3

\* The characters of the keys: an upper- and a lower-case letter, a digit, a
\* punctuation mark, the space, the tab and the newline.
KeyChars == {"F", "f", "2", "-", " ", "\t", "\n"}

Keys == UNION {[1..n -> KeyChars] : n \in 0..MaxKeyLen}

\* Two keys and a source are chosen.
InitKeys ==
  /\ InitPipeline
  /\ max_workers = MaxWorkers
  /\ batch_size = MaxBatch
  /\ InitPoll
  /\ run = IdleRun
  /\ InitIdleBreaker
  /\ flag = FeatureFlag_new
  /\ keys \in [k1 : Keys, k2 : Keys, source : SourceArgs]
  /\ ret = [fn |-> "none"]

\* What a pure function leaves alone: everything but its return value.
NotRet ==
  <<pipeline_vars, poll_vars, run_vars, breaker_vars, flag_vars, keys>>

\* generate_fingerprint, lines 252-258, applied to a record of each key
ApplyFingerprint ==
  /\ ret' = [fn |-> "generate_fingerprint",
             v1 |-> generate_fingerprint(Rec(keys.source, "id-1", keys.k1)),
             v2 |-> generate_fingerprint(Rec(keys.source, "id-2", keys.k2))]
  /\ UNCHANGED NotRet

\* validate_record, lines 231-243, applied to a record of each key
ApplyValidate ==
  /\ ret' = [fn |-> "validate_record",
             v1 |-> validate_record(Rec(keys.source, "id-1", keys.k1)),
             v2 |-> validate_record(Rec(keys.source, "id-2", keys.k2))]
  /\ UNCHANGED NotRet

NextKeys == ApplyFingerprint \/ ApplyValidate

SpecKeys == InitKeys /\ [][NextKeys]_vars

\* ------------------------------------------------------- the feature flags

\* Number of is_enabled calls over one run.
MaxChecks == 3

\* The user ids, as the bytes of their UTF-8 text: "a" and "bob".
Users == {<<97>>, <<98, 111, 98>>}

\* The rollout percentages of the model.
Percents == {0, 50, 100}

\* FeatureFlagStrategy, lines 17-32
Strategies ==
  {[kind |-> "Static", on |-> b] : b \in BOOLEAN}
    \cup {[kind |-> "Percentage", percent |-> p] : p \in Percents}
    \cup {[kind |-> "UserList", users |-> us] : us \in SUBSET Users}
    \cup {[kind |-> "Combined", percentage |-> p, user_list |-> ul] :
            p \in {None} \cup {Some(q) : q \in Percents},
            ul \in {None} \cup {Some(us) : us \in SUBSET Users}}

\* hash_string, lines 125-131: hash * 31 + byte over the bytes; the user ids
\* of the model are too short for the product to wrap at 2^64
RECURSIVE hash_from(_, _)
hash_from(hash, bytes) ==
  IF bytes = <<>> THEN hash
  ELSE hash_from(hash * 31 + Head(bytes), Tail(bytes))

hash_string(s) == hash_from(0, s)

\* FeatureFlag::new(..).with_strategy(strategy), lines 48-63, with the pub
\* field enabled set either way
InitFlag ==
  /\ InitPipeline
  /\ max_workers = MaxWorkers
  /\ batch_size = MaxBatch
  /\ InitPoll
  /\ run = IdleRun
  /\ InitIdleBreaker
  /\ InitIdleKeys
  /\ \E strategy \in Strategies, enabled \in BOOLEAN :
       flag = [FeatureFlag_new EXCEPT !.strategy = strategy, !.enabled = enabled]

\* users.contains(&uid.to_string()) for Some(uid), false for None
Listed(user_id, users) == user_id # None /\ user_id[1] \in users

\* is_enabled, lines 73-113: what the match on the strategy comes to. via is
\* "return" where an arm returns from is_enabled itself, "result" where the
\* value is bound to result and the code after the match runs.
Evaluate(strategy, user_id, nanos) ==
  CASE strategy.kind = "Static" ->
         [via |-> "result", value |-> strategy.on]
    [] strategy.kind = "Percentage" ->
         [via |-> "result",
          value |-> (IF user_id # None THEN hash_string(user_id[1]) % 100
                     ELSE nanos % 100) < strategy.percent]
    [] strategy.kind = "UserList" ->
         [via |-> "result", value |-> Listed(user_id, strategy.users)]
    [] strategy.kind = "Combined" ->
         IF strategy.user_list # None /\ Listed(user_id, strategy.user_list[1])
           THEN [via |-> "return", value |-> TRUE]
         ELSE IF strategy.percentage # None /\ user_id # None
           THEN [via |-> "return",
                 value |-> hash_string(user_id[1]) % 100 < strategy.percentage[1]]
         ELSE [via |-> "result", value |-> FALSE]

\* FeatureFlag::is_enabled, lines 65-122; nanos is what the system clock
\* reads when there is no user id
IsEnabled(user_id, nanos) ==
  /\ flag.total_checks < MaxChecks
  /\ LET e == Evaluate(flag.strategy, user_id, nanos) IN
     flag' =
       IF ~flag.enabled
         THEN [flag EXCEPT !.total_checks = @ + 1, !.false_checks = @ + 1,
                           !.last = FALSE]
       ELSE IF e.via = "return"
         THEN [flag EXCEPT !.total_checks = @ + 1, !.last = e.value]
       ELSE [flag EXCEPT !.total_checks = @ + 1,
                         !.true_checks = IF e.value THEN @ + 1 ELSE @,
                         !.false_checks = IF e.value THEN @ ELSE @ + 1,
                         !.last = e.value]
  /\ UNCHANGED <<pipeline_vars, poll_vars, run_vars, breaker_vars, key_vars>>

NextFlag ==
  \E user_id \in {None} \cup {Some(u) : u \in Users}, nanos \in 0..99 :
    IsEnabled(user_id, nanos)

SpecFlag == InitFlag /\ [][NextFlag]_vars


\* ------------------------------------------------------ what the claims use

Tasks == Callers \X Indices

Returned(k) == calls[k].result.total_records >= 0
\* A call that ran alone, with no clear_cache while it was open.
Undisturbed(k) == ~calls[k].overlapped /\ ~calls[k].cleared

PermitsHeld == Cardinality({t \in Tasks : task[t[1]][t[2]].permit})
Running ==
  Cardinality({t \in Tasks : task[t[1]][t[2]].pc \in {"check", "create", "insert", "drop"}})
OpenCreates == Cardinality({t \in Tasks : task[t[1]][t[2]].pc = "create"})

Count(seq, S) == Cardinality({i \in 1..Len(seq) : seq[i] \in S})
BucketSum(r) == r.successful + r.failed + r.duplicates + r.validation_errors

\* The record a stored id was created for.
RecordOf(id) == calls[id[1]].records[id[2]]

\* 0-based number of the batch record i falls in
BatchOf(i) == (i - 1) \div batch_size

\* --------------------------------------------------------------- C1

\* C1: the result of every returned ingest call has total_records equal to
\* the length of its record list, and its four buckets add up to that length,
\* whatever the tasks did (validation error, duplicate, storage error, panic).
C1_TallyComplete ==
  \A k \in 1..Len(calls) :
    Returned(k) =>
      /\ calls[k].result.total_records = Len(calls[k].records)
      /\ BucketSum(calls[k].result) = Len(calls[k].records)

\* A call of two records has returned, one of its tasks panicked and the
\* other one succeeded.
C1_Witness ==
  \E k \in 1..Len(calls) :
    /\ Returned(k)
    /\ Len(calls[k].records) = 2
    /\ Count(calls[k].outcomes, {"Panic"}) = 1
    /\ Count(calls[k].outcomes, {"Success"}) = 1

\* --------------------------------------------------------------- C2

\* C2: at most max_workers tasks hold a permit, at most max_workers tasks are
\* between their spawn and their end, and at most max_workers create_material
\* calls are open, also with two ingest calls open on the pipeline.
C2_WorkerBound ==
  /\ PermitsHeld <= max_workers
  /\ Running <= max_workers
  /\ OpenCreates <= max_workers

\* Two calls are open, every permit is in a create_material call, and a
\* caller waits for a permit.
C2_Witness ==
  /\ max_workers >= 1
  /\ Cardinality(OpenCallers) = 2
  /\ OpenCreates = max_workers
  /\ \E c \in Callers : call[c].pc = "spawn" /\ semaphore = 0

\* --------------------------------------------------------------- C3

\* C3: between two clear_cache calls at most one task per fingerprint returns
\* Success.
C3_AtMostOneSuccess ==
  \A s1, s2 \in successes :
    (s1.clears = s2.clears /\ s1.fingerprint = s2.fingerprint) => s1.id = s2.id

\* --------------------------------------------------------------- C4

ValidAt(records, i) == validate_record(records[i])
SameFingerprint(records, i) ==
  {j \in 1..Len(records) :
     /\ ValidAt(records, j)
     /\ generate_fingerprint(records[j]) = generate_fingerprint(records[i])}

StorageSucceeded(k) == Count(calls[k].stores, {"Err", "Panic"}) = 0

ScenarioFe2O3 ==
  <<Rec(MaterialsProject, "mp-0", Fe2O3), Rec(MaterialsProject, "mp-0", Fe2O3),
    Rec(MaterialsProject, "mp-2", Al2O3)>>

\* C4: a call on a fresh cache whose storage calls all succeed counts, of the
\* k valid records that share a fingerprint, one as successful and k-1 as
\* duplicates; for ["Fe2O3","Fe2O3","Al2O3"] the result is total 3,
\* successful 2, duplicates 1, failed 0, validation_errors 0.
C4_OneSuccessPerFingerprint ==
  \A k \in 1..Len(calls) :
    (Returned(k) /\ calls[k].fresh /\ Undisturbed(k) /\ StorageSucceeded(k)) =>
      /\ \A i \in 1..Len(calls[k].records) :
           ValidAt(calls[k].records, i) =>
             LET same == SameFingerprint(calls[k].records, i) IN
             /\ Cardinality({j \in same : calls[k].outcomes[j] = "Success"}) = 1
             /\ Cardinality({j \in same : calls[k].outcomes[j] = "Duplicate"})
                  = Cardinality(same) - 1
      /\ calls[k].records = ScenarioFe2O3 =>
           calls[k].result =
             [total_records |-> 3, successful |-> 2, failed |-> 0,
              duplicates |-> 1, validation_errors |-> 0]

\* --------------------------------------------------------------- C5

\* Call k started on an empty cache and ran alone with no clear_cache.
FirstOnFresh(k) == Returned(k) /\ calls[k].fresh /\ Undisturbed(k)

\* Calls k and k+1 ingested the same list one after the other, the first on
\* an empty cache, with no clear_cache from the start of the first to the
\* return of the second.
Twice(k) ==
  /\ FirstOnFresh(k)
  /\ Returned(k + 1) /\ Undisturbed(k + 1)
  /\ calls[k + 1].records = calls[k].records
  /\ calls[k + 1].clears = calls[k].clears

\* No two valid records of the list share a fingerprint.
DistinctFingerprints(records) ==
  \A i \in 1..Len(records) :
    ValidAt(records, i) => SameFingerprint(records, i) = {i}

\* C5 as stated: the first ingest of any list on a fresh cache reports no
\* duplicate, and a second ingest of the same list reports as many
\* duplicates as the first reported successes.
C5_IdempotenceAnyList ==
  \A k \in 1..Len(calls) :
    /\ FirstOnFresh(k) => calls[k].result.duplicates = 0
    /\ (k < Len(calls) /\ Twice(k)) =>
         calls[k + 1].result.duplicates = calls[k].result.successful

\* C5, amended: the same holds for every list in which no two valid records
\* share a fingerprint.
C5_Idempotence ==
  \A k \in 1..Len(calls) :
    DistinctFingerprints(calls[k].records) =>
      /\ FirstOnFresh(k) => calls[k].result.duplicates = 0
      /\ (k < Len(calls) /\ Twice(k)) =>
           calls[k + 1].result.duplicates = calls[k].result.successful

\* A list of three records with distinct fingerprints was ingested twice;
\* the first call stored two of them.
C5_Witness ==
  /\ Len(calls) = 2
  /\ Twice(1)
  /\ DistinctFingerprints(calls[1].records)
  /\ Len(calls[1].records) = 3
  /\ calls[1].result.successful = 2
  /\ calls[2].result.duplicates = 2

\* --------------------------------------------------------------- C6

\* C6: records with the same key and different source tags of their own have
\* different fingerprints, and a record is classified Duplicate only on
\* account of a stored record with its own source tag.
C6_CrossSource ==
  /\ \A k1, k2 \in 1..Len(calls) :
       \A i1 \in 1..Len(calls[k1].records), i2 \in 1..Len(calls[k2].records) :
         LET r1 == calls[k1].records[i1]
             r2 == calls[k2].records[i2] IN
         (r1.formula = r2.formula /\ r1.source # r2.source) =>
           generate_fingerprint(r1) # generate_fingerprint(r2)
  /\ \A c \in OpenCallers, i \in Indices :
       task[c][i].outcome = "Duplicate" =>
         LET r == call[c].records[i]
             hits == {s \in successes : s.fingerprint = generate_fingerprint(r)} IN
         /\ hits # {}
         /\ \A s \in hits : RecordOf(s.id).source = r.source

\* In a call for source MaterialsProject, records with key Fe2O3 tagged
\* Custom("a") and Custom("b") were both stored with no clear in between, and
\* a later Custom("a") record of the call is the duplicate of the first.
C6_Witness ==
  \E s1, s2 \in successes :
    /\ s1.clears = s2.clears
    /\ RecordOf(s1.id).formula = RecordOf(s2.id).formula
    /\ RecordOf(s1.id).source = Custom(<<"a">>)
    /\ RecordOf(s2.id).source = Custom(<<"b">>)
    /\ call[1].pc = "return"
    /\ call[1].source = MaterialsProject
    /\ call[1].n = s1.id[1]
    /\ task[1][3].outcome = "Duplicate"

\* --------------------------------------------------------------- C7

\* C7: when a task of a batch has been spawned, every task of the earlier
\* batches of that call has ended, has given back its permit and has been
\* tallied.
C7_BatchesSequential ==
  \A c \in OpenCallers :
    \A i, j \in 1..call[c].total :
      (task[c][i].pc # "none" /\ BatchOf(j) < BatchOf(i)) =>
        /\ task[c][j].pc = "done"
        /\ ~task[c][j].permit
        /\ call[c].joined >= j

\* A task of the second batch is in its create_material call.
C7_Witness ==
  \E c \in OpenCallers :
    \E i \in 1..call[c].total : BatchOf(i) = 1 /\ task[c][i].pc = "create"

\* --------------------------------------------------------------- C8

Failing == {"Err", "Panic"}

\* In a returned call the failed records are those whose create_material
\* call failed, and every other record has run to its own outcome.
C8_FailedIffStoreFailed ==
  \A k \in 1..Len(calls) :
    Returned(k) =>
      /\ calls[k].result.failed = Count(calls[k].stores, Failing)
      /\ \A i \in 1..Len(calls[k].records) :
           /\ calls[k].outcomes[i] \in Failing <=> calls[k].stores[i] \in Failing
           /\ calls[k].outcomes[i] = "Success" <=> calls[k].stores[i] = "Ok"
           /\ calls[k].outcomes[i] = "ValidationError"
                <=> ~ValidAt(calls[k].records, i)
           /\ calls[k].outcomes[i] \in {"ValidationError", "Duplicate"}
                <=> calls[k].stores[i] = "none"

\* A step of a task whose create_material call fails or has failed.
FailingStep(c, i) ==
  /\ task'[c][i] # task[c][i]
  /\ task'[c][i].store \in Failing

C8_Frame ==
  \A c \in Callers, i \in Indices :
    FailingStep(c, i) =>
      /\ fingerprints' = fingerprints
      /\ db' = db
      /\ call' = call
      /\ \A t \in Tasks : t # <<c, i>> => task'[t[1]][t[2]] = task[t[1]][t[2]]

\* C8: a returned call counts in failed exactly the records whose
\* create_material call returned an error or panicked; every other record of
\* the call, in the same batch or a later one, still ran to Success,
\* Duplicate or ValidationError; and a step of a failing record's task
\* changes neither the dedup cache, nor the stored materials, nor any other
\* task, nor the counters of any call.
C8_FailureIsolated == []C8_FailedIffStoreFailed /\ [][C8_Frame]_vars

\* A call of two records has returned: the create_material call of the first
\* record failed, the second record is stored.
C8_Witness ==
  \E k \in 1..Len(calls) :
    /\ Returned(k)
    /\ Len(calls[k].records) = 2
    /\ calls[k].stores[1] = "Err"
    /\ calls[k].outcomes[2] = "Success"
    /\ calls[k].result.failed = 1
    /\ calls[k].result.successful = 1

\* --------------------------------------------------------------- C9

\* C9: the permits available and the permits owned by tasks add up to
\* max_workers, only a task that has not ended owns a permit, each joined
\* task that panicked or got a storage error is counted as one failed record,
\* and with no call open all max_workers permits are available.
C9_PermitsReturned ==
  /\ semaphore + PermitsHeld = max_workers
  /\ \A t \in Tasks :
       task[t[1]][t[2]].permit =>
         task[t[1]][t[2]].pc \in {"check", "create", "insert", "drop"}
  /\ \A c \in OpenCallers :
       call[c].failed =
         Cardinality({i \in 1..call[c].joined : task[c][i].outcome \in {"Err", "Panic"}})
  /\ OpenCallers = {} => semaphore = max_workers

\* No call is open, the last call had a task that panicked in its
\* create_material call while its sibling went on to Success, and every permit
\* is back.
C9_Witness ==
  /\ OpenCallers = {}
  /\ max_workers = 2
  /\ semaphore = 2
  /\ \E k \in 1..Len(calls) :
       /\ Returned(k)
       /\ calls[k].outcomes = <<"Panic", "Success">>
       /\ calls[k].result.failed = 1

\* --------------------------------------------------------------- C10

C10_EmptyCall ==
  /\ \A c \in OpenCallers :
       call[c].total = 0 =>
         /\ call[c].pc = "return"
         /\ call[c].successful = 0 /\ call[c].failed = 0
         /\ call[c].duplicates = 0 /\ call[c].validation_errors = 0
         /\ \A i \in Indices : task[c][i].pc = "none"
         /\ progress[call[c].source].processed = 0
         /\ progress[call[c].source].total = <<0>>
         /\ progress[call[c].source].current_batch = 0
         /\ progress[call[c].source].progress_percent.num = 0
  /\ \A k \in 1..Len(calls) :
       (Returned(k) /\ calls[k].records = <<>>) =>
         calls[k].result =
           [total_records |-> 0, successful |-> 0, failed |-> 0,
            duplicates |-> 0, validation_errors |-> 0]
  /\ \A source \in DOMAIN progress : progress[source].progress_percent.den # 0

\* A step of a caller whose call is for the empty list.
EmptyCallStep(c) ==
  /\ call'[c] # call[c]
  /\ \/ call[c].pc # "idle" /\ call[c].total = 0
     \/ call[c].pc = "idle" /\ call'[c].total = 0

C10_Frame ==
  \A c \in Callers :
    EmptyCallStep(c) =>
      /\ fingerprints' = fingerprints
      /\ db' = db
      /\ semaphore' = semaphore

\* C10: ingest of the empty list goes straight to its return with all
\* counters 0 and no task, returns the all-zero result, divides by nothing,
\* leaves the progress entry of its source at processed 0, total Some(0),
\* current_batch 0, progress_percent 0, and its steps change neither the
\* dedup cache nor the stored materials nor the semaphore.
C10_EmptyInput == []C10_EmptyCall /\ [][C10_Frame]_vars

\* An ingest of the empty list has returned while the dedup cache holds a
\* fingerprint.
C10_Witness ==
  \E k \in 1..Len(calls) :
    /\ Returned(k)
    /\ calls[k].records = <<>>
    /\ DOMAIN fingerprints # {}
    /\ calls[k].source \in DOMAIN progress
    /\ progress[calls[k].source].total = <<0>>

\* --------------------------------------------------------------- C11

\* The tasks of caller c that have been spawned and have not ended.
Unfinished(c) == {i \in Indices : task[c][i].pc \notin {"none", "done"}}

\* A caller that is about to return, or has returned, has no task under way
\* and none that owns a permit; every record of a returning call has an
\* outcome.
C11_Drained ==
  /\ \A c \in Callers :
       call[c].pc \in {"return", "idle"} =>
         /\ Unfinished(c) = {}
         /\ \A i \in Indices : ~task[c][i].permit
  /\ \A c \in Callers :
       call[c].pc = "return" =>
         \A i \in 1..call[c].total :
           task[c][i].pc = "done" /\ task[c][i].outcome # NoOutcome
  /\ \A k \in 1..Len(calls) :
       Returned(k) =>
         \A i \in 1..Len(calls[k].records) : calls[k].outcomes[i] # NoOutcome

\* The materials stored, and the cache entries written, for the records of
\* call k.
StoredBy(k, ids) == {id \in ids : id[1] = k}
WrittenBy(k, ss) == {s \in ss : s.id[1] = k}

\* Once call k has returned, no step stores a material or writes a cache entry
\* for one of its records.
C11_Frame ==
  \A k \in 1..Len(calls) :
    Returned(k) =>
      /\ StoredBy(k, db') = StoredBy(k, db)
      /\ WrittenBy(k, successes') = WrittenBy(k, successes)

\* C11: when an ingest call returns, every record of its list has an outcome,
\* none of its tasks is under way or owns a permit, and after the return no
\* create_material call and no write of the dedup cache happens for a record
\* of that call.
C11_ReturnsWhenDrained == []C11_Drained /\ [][C11_Frame]_vars

\* A call of one record has returned with Success while a task of the other
\* caller's call is in its create_material call.
C11_Witness ==
  \E k \in 1..Len(calls) :
    /\ Returned(k)
    /\ calls[k].outcomes = <<"Success">>
    /\ \E c \in OpenCallers, i \in Indices : task[c][i].pc = "create"

\* --------------------------------------------------------------- C12

\* ceil(total / size)
NumBatches(total, size) == (total + size - 1) \div size

\* The records of the first b batches of a list of total records.
RecordsUpTo(total, b) == Cardinality({i \in 1..total : BatchOf(i) < b})

\* C12: in every progress entry processed <= total; while a call is open the
\* entry of its source shows the number b of batches completed so far as
\* current_batch and min(b * batch_size, total), the number of records of
\* those batches, as processed; at the return processed is the total.
C12_ProcessedPerBatch ==
  /\ \A s \in DOMAIN progress :
       progress[s].total # None => progress[s].processed <= progress[s].total[1]
  /\ \A c \in OpenCallers :
       /\ call[c].source \in DOMAIN progress
       /\ LET e == progress[call[c].source]
              b == call[c].batch_num IN
          /\ e.total = Some(call[c].total)
          /\ e.current_batch = b
          /\ e.processed = Min(b * batch_size, call[c].total)
          /\ e.processed = RecordsUpTo(call[c].total, b)
          /\ call[c].pc = "return" =>
               /\ e.processed = call[c].total
               /\ b = NumBatches(call[c].total, batch_size)

\* With batch size 2 the second batch of a list of three records is done: the
\* entry shows batch 2 and 3 records, not 4.
C12_Witness ==
  /\ batch_size = 2
  /\ call[1].pc = "return"
  /\ call[1].total = 3
  /\ progress[call[1].source].current_batch = 2
  /\ progress[call[1].source].processed = 3

\* --------------------------------------------------------------- C14

\* Every record of the list carries the source the call is for.
OwnTagged(source, records) ==
  \A i \in 1..Len(records) : records[i].source = source

AllOwnTagged ==
  \A k \in 1..Len(calls) : OwnTagged(calls[k].source, calls[k].records)

\* No later call was made for the source of call k.
LastFor(k) ==
  \A j \in 1..Len(calls) : calls[j].source = calls[k].source => j <= k

\* The entry a call of n records leaves when it ran alone.
FinalEntry(k) ==
  LET n == Len(calls[k].records)
      r == calls[k].result IN
  IF n = 0 THEN ResetEntry(calls[k].source, 0)
  ELSE [source |-> calls[k].source, processed |-> n, total |-> Some(n),
        current_batch |-> NumBatches(n, batch_size),
        errors |-> r.failed + r.validation_errors,
        progress_percent |-> Ratio(n * 100, n)]

\* What a returned call reports follows from its own records, the storage
\* outcomes of its own records and the records stored for its own source.
C14_OwnResult ==
  AllOwnTagged =>
    \A k \in 1..Len(calls) :
      Returned(k) =>
        LET r == calls[k].result
            n == Len(calls[k].records) IN
        /\ r.validation_errors =
             Cardinality({i \in 1..n : ~ValidAt(calls[k].records, i)})
        /\ r.failed = Count(calls[k].stores, Failing)
        /\ r.successful = Count(calls[k].stores, {"Ok"})
        /\ r.duplicates = n - r.validation_errors - r.failed - r.successful
        /\ \A i \in 1..n :
             calls[k].outcomes[i] = "Duplicate" =>
               \E s \in successes :
                 /\ s.fingerprint = generate_fingerprint(calls[k].records[i])
                 /\ calls[s.id[1]].source = calls[k].source
        /\ calls[k].source \in DOMAIN progress
        /\ LastFor(k) => progress[calls[k].source] = FinalEntry(k)

\* Caller d takes a step: it starts a call, moves on in its call, or one of
\* its tasks moves on.
StepOf(d) == call'[d] # call[d] \/ task'[d] # task[d]

\* The call of d that the step belongs to.
CallOf(d) == IF call[d].pc = "idle" THEN call'[d] ELSE call[d]

\* A step of caller d changes nothing that the open call of another caller
\* reads or reports: its locals, its tasks, the progress entry of its source,
\* and whether the fingerprints of its records are in the cache.
C14_Frame ==
  \A c, d \in Callers :
    ( /\ c # d
      /\ StepOf(d)
      /\ call[c].pc # "idle"
      /\ OwnTagged(call[c].source, call[c].records)
      /\ OwnTagged(CallOf(d).source, CallOf(d).records) ) =>
        /\ call'[c] = call[c]
        /\ task'[c] = task[c]
        /\ call[c].source \in DOMAIN progress
        /\ call[c].source \in DOMAIN progress'
        /\ progress'[call[c].source] = progress[call[c].source]
        /\ \A i \in 1..call[c].total :
             LET fingerprint == generate_fingerprint(call[c].records[i]) IN
             (fingerprint \in DOMAIN fingerprints')
               <=> (fingerprint \in DOMAIN fingerprints)

\* C14: two calls open at once for different sources, each with records of
\* its own source, do not interfere: no step of one changes the locals, the
\* tasks, the progress entry or the cache entries the other reads, and each
\* returns the counts, and leaves the progress entry, that follow from its
\* own records and their storage outcomes.
C14_Independent == []C14_OwnResult /\ [][C14_Frame]_vars

\* Two calls for different sources, each with one record of its own source
\* and the same key, were open at once and both stored their record.
C14_Witness ==
  /\ Len(calls) = 2
  /\ AllOwnTagged
  /\ Returned(1) /\ Returned(2)
  /\ calls[1].overlapped /\ calls[2].overlapped
  /\ calls[1].source # calls[2].source
  /\ calls[1].outcomes = <<"Success">>
  /\ calls[2].outcomes = <<"Success">>
  /\ calls[1].records[1].formula = calls[2].records[1].formula

\* --------------------------------------------------------------- C16

\* A clear_cache step empties the cache and changes neither the progress map
\* nor the semaphore.
C16_ClearStep ==
  clears' # clears =>
    /\ DOMAIN fingerprints' = {}
    /\ progress' = progress
    /\ semaphore' = semaphore

\* A record of a returned call is a Duplicate only on account of a record
\* stored since the last clear_cache, and a record whose fingerprint was not
\* stored since then and whose create_material call succeeds is a Success.
C16_FreshAfterClear ==
  \A k \in 1..Len(calls) :
    (Returned(k) /\ ~calls[k].cleared) =>
      \A i \in 1..Len(calls[k].records) :
        LET fingerprint == generate_fingerprint(calls[k].records[i])
            since == {s \in successes :
                        /\ s.clears = calls[k].clears
                        /\ s.fingerprint = fingerprint
                        /\ s.id # <<k, i>>} IN
        /\ calls[k].outcomes[i] = "Duplicate" => since # {}
        /\ (ValidAt(calls[k].records, i) /\ since = {}) =>
             calls[k].outcomes[i] \in {"Success", "Err", "Panic"}

\* C16: clear_cache with no ingest in progress leaves the cache empty, the
\* progress map and the semaphore as they were, and a record stored before
\* the clear is not a Duplicate on account of that when it is ingested again.
C16_ClearResets == []C16_FreshAfterClear /\ [][C16_ClearStep]_vars

\* One list was ingested, the cache was cleared, the list was ingested again:
\* its second record was a Success both times.
C16_Witness ==
  /\ Len(calls) = 2
  /\ Returned(1) /\ Returned(2)
  /\ calls[1].clears = 0 /\ calls[2].clears = 1
  /\ calls[1].records = calls[2].records
  /\ Len(calls[1].records) = 3
  /\ calls[1].outcomes[2] = "Success"
  /\ calls[2].outcomes[2] = "Success"
  /\ DOMAIN progress # {}

\* --------------------------------------------------------------- C17

\* C17: every ingest call that has ended returned Ok with its result,
\* whatever its tasks did, and no open call has been cut short by a failing
\* record.
C17_AlwaysOk ==
  /\ \A k \in 1..Len(calls) :
       /\ calls[k].returned \in {"none", "Ok"}
       /\ Returned(k) <=> calls[k].returned = "Ok"
       /\ (\A c \in OpenCallers : call[c].n # k) => calls[k].returned = "Ok"
  /\ \A c \in OpenCallers :
       /\ ~call[c].aborted
       /\ call[c].pc = "return" => call[c].joined = call[c].total

\* Two calls have returned Ok: the records of the first ended in a
\* validation error, a Success and a storage error, those of the second in a
\* validation error, a Duplicate and a panic.
C17_Witness ==
  /\ Len(calls) = 2
  /\ calls[1].returned = "Ok" /\ calls[2].returned = "Ok"
  /\ calls[1].outcomes = <<"ValidationError", "Success", "Err">>
  /\ calls[2].outcomes = <<"ValidationError", "Duplicate", "Panic">>

\* --------------------------------------------------------------- C13

\* The outcome of record i of call k, returned or still open.
OutcomeAt(k, i) ==
  IF Returned(k) THEN calls[k].outcomes[i]
  ELSE LET c == CHOOSE d \in Callers : call[d].n = k IN task[c][i].outcome

\* The records among the first p of call k that count as errors.
ErrorsUpTo(k, p) ==
  Cardinality({i \in 1..p :
                 OutcomeAt(k, i) \in {"Err", "Panic", "ValidationError"}})

\* The entry is the one written at the reset of a call, or the one written
\* after batch b of a call for its source: all four fields of that boundary.
Whole(e) ==
  \/ /\ e.total # None
     /\ e = ResetEntry(e.source, e.total[1])
  \/ \E k \in 1..Len(calls), b \in Indices :
       LET n == Len(calls[k].records) IN
       /\ calls[k].source = e.source
       /\ e.total = Some(n)
       /\ b <= NumBatches(n, batch_size)
       /\ e.current_batch = b
       /\ e.processed = Min(b * batch_size, n)
       /\ e.progress_percent = Ratio(e.processed * 100, n)
       /\ e.errors = ErrorsUpTo(k, e.processed)

\* What get_progress returned is None or a whole entry for the source asked.
C13_WholeSnapshot ==
  (snapshot.polled /\ snapshot.value # None) =>
    /\ snapshot.value[1].source = snapshot.source
    /\ Whole(snapshot.value[1])

\* A step of the pipeline leaves the returned snapshot as it is.
C13_Frame == pipeline_vars' # pipeline_vars => snapshot' = snapshot

\* C13: a get_progress call made while ingest runs returns None or an entry
\* whose processed, current_batch, errors and progress_percent are those of
\* one batch boundary (or of the reset), and no later step of ingest changes
\* what was returned.
C13_NoTornSnapshot == []C13_WholeSnapshot /\ [][C13_Frame]_vars

\* The poller holds the entry written after the first batch, with one error,
\* while ingest holds the write lock to write the entry of the next batch.
C13_Witness ==
  /\ snapshot.polled
  /\ snapshot.value # None
  /\ snapshot.value[1].current_batch = 1
  /\ snapshot.value[1].errors = 1
  /\ call[1].pc = "writing"
  /\ progress[call[1].source].current_batch = 2
  /\ call[1].source = snapshot.source

\* --------------------------------------------------------------- C15

\* The ingest calls made for a source.
CallsFor(source) == {k \in 1..Len(calls) : calls[k].source = source}

\* After a failed fetch the run has ended with an error, no ingest call was
\* made for the source of that fetch, and nothing of it was checked against
\* the cache, stored or counted; every ingest call got the whole list of a
\* fetch that returned Ok.
C15_NoIngestAfterFailedFetch ==
  /\ run.mp = "Err" =>
       /\ run.pc = "aborted" /\ run.error
       /\ run.pubchem = "none"
       /\ calls = <<>>
       /\ db = {} /\ successes = {}
       /\ DOMAIN fingerprints = {} /\ DOMAIN progress = {}
       /\ \A i \in Indices : task[1][i] = NoTask
  /\ run.pubchem = "Err" =>
       /\ run.pc = "aborted" /\ run.error
       /\ CallsFor(PubChem) = {}
       /\ PubChem \notin DOMAIN progress
       /\ OpenCallers = {}
       /\ \A id \in db : RecordOf(id).source = MaterialsProject
       /\ \A s \in successes : RecordOf(s.id).source = MaterialsProject
  /\ run.error <=> (run.mp = "Err" \/ run.pubchem = "Err")
  /\ \A k \in 1..Len(calls) :
       /\ calls[k].source = MaterialsProject =>
            run.mp = "Ok" /\ calls[k].records = MaterialsProjectFetch(run.limit)
       /\ calls[k].source = PubChem =>
            run.pubchem = "Ok" /\ calls[k].records = PubChemFetch(run.limit)
       /\ Returned(k) => BucketSum(calls[k].result) = Len(calls[k].records)

\* A run that has ended with an error takes no further step.
C15_Frame == run.pc = "aborted" => vars' = vars

\* C15: when the fetch of an adapter fails, run returns the error before
\* ingest is called for that source: no record of the fetch is validated,
\* fingerprinted, stored or counted in a bucket, and the run does nothing
\* after it.
C15_FetchFailureAborts == []C15_NoIngestAfterFailedFetch /\ [][C15_Frame]_vars

\* The two Materials Project records were stored, then the PubChem fetch
\* failed and the run ended with the error.
C15_Witness ==
  /\ run.pc = "aborted"
  /\ run.mp = "Ok"
  /\ run.pubchem = "Err"
  /\ Len(calls) = 1
  /\ Returned(1)
  /\ calls[1].result.successful = 2

\* --------------------------------------------------------------- C18

\* The adapter the run uses for a source.
AdapterOf(source) == IF source = MaterialsProject THEN "mp" ELSE "pubchem"

\* C18: the progress entry of a source whose adapter has no estimate_count
\* has total None and no percentage.
C18_TotalUnknownWithoutEstimate ==
  \A source \in DOMAIN progress :
    run.estimate[AdapterOf(source)] = "Err" =>
      /\ progress[source].total = None
      /\ progress[source].progress_percent = Ratio(0, 1)


\* The calls rejected so far, over the threads.
RECURSIVE RejectedBy(_)
RejectedBy(ts) ==
  IF ts = {} THEN 0
  ELSE LET t == CHOOSE x \in ts : TRUE IN thread[t].rejected + RejectedBy(ts \ {t})

\* The call of thread t has admitted or rejected.
Decided(t) ==
  IF thread[t].pc = "idle" THEN thread[t].result # "none"
  ELSE thread[t].pc \notin PreDecision

\* C19: a call during which the breaker is Open with the timeout not elapsed
\* since the last recorded failure returns CircuitOpen without invoking the
\* wrapped function, and every rejection is counted in rejected_calls; a call
\* during which the breaker is Closed is admitted and invokes the function.
C19_OpenRejectsClosedAdmits ==
  /\ \A t \in Threads :
       /\ thread[t].open /\ Decided(t) =>
            /\ thread[t].pc = "idle"
            /\ thread[t].result = "CircuitOpen"
            /\ ~thread[t].invoked
       /\ thread[t].closed /\ Decided(t) => thread[t].invoked
  /\ breaker.rejected_calls = RejectedBy(Threads)


\* C20: with at least one worker and a create_material that returns, every
\* ingest call that has begun returns, also when a batch is larger than
\* max_workers and when two calls share the semaphore.
C20_EveryIngestReturns ==
  \A c \in Callers : (call[c].pc # "idle") ~> (call[c].pc = "idle")

\* A call has returned that ran while another call was open and whose batch
\* was larger than the pool, so that its loop has waited for a permit.
C20_Witness ==
  \E k \in 1..Len(calls) :
    /\ calls[k].returned = "Ok"
    /\ calls[k].overlapped
    /\ Min(batch_size, Len(calls[k].records)) > max_workers


\* The progress entry of source s is written by the step.
Written(s) == s \notin DOMAIN progress \/ progress'[s] # progress[s]

\* The step is the reset at the start of a call of c for source s.
ResetWrite(c, s) ==
  /\ call[c].pc = "idle"
  /\ call'[c].pc # "idle"
  /\ call'[c].source = s
  /\ progress'[s].current_batch = 0
  /\ progress'[s].processed = 0

\* The step is the write after the batch of c for source s that has just
\* been joined: the batch is the records after the last one processed, up to
\* the end of the batch or of the list, and all of them have ended.
BatchWrite(c, s) ==
  LET b == call[c].batch_num
      first == b * batch_size + 1
      last == Min((b + 1) * batch_size, call[c].total) IN
  /\ call[c].pc = "progress"
  /\ call[c].source = s
  /\ s \in DOMAIN progress
  /\ progress[s].processed = first - 1
  /\ progress'[s].processed = last
  /\ progress'[s].processed >= progress[s].processed
  /\ progress'[s].current_batch = progress[s].current_batch + 1
  /\ call'[c].batch_num = progress'[s].current_batch
  /\ call[c].joined = last
  /\ \A i \in Indices :
       /\ i \in first..last => task[c][i].pc = "done"
       /\ i > last => task[c][i].pc = "none"

\* Every write of a progress entry is a reset or the write after a batch of
\* a call for that source, and every batch that ends is followed by its write.
C21_Frame ==
  /\ DOMAIN progress \subseteq DOMAIN progress'
  /\ \A s \in DOMAIN progress' :
       Written(s) => \E c \in Callers : ResetWrite(c, s) \/ BatchWrite(c, s)
  /\ \A c \in Callers :
       /\ call[c].pc # "idle"
       /\ call'[c].pc # "idle"
       /\ call'[c].batch_num # call[c].batch_num
       => call[c].pc = "progress" /\ Written(call[c].source)

\* At the return the entry shows the last batch and all the records.
C21_Completed ==
  \A c \in OpenCallers :
    call[c].pc = "return" =>
      /\ call[c].source \in DOMAIN progress
      /\ progress[call[c].source].current_batch =
           NumBatches(call[c].total, batch_size)
      /\ progress[call[c].source].processed = call[c].total

\* C21: within one ingest call the progress entry of the source is written
\* only at the reset and once after each batch; current_batch goes 0, 1, ...,
\* ceil(total / B), batch i is the records (i-1)*B+1 .. min(i*B, total),
\* processed never decreases, and at the return processed is the total.
C21_BatchByBatch == []C21_Completed /\ [][C21_Frame]_vars

\* With batch size 1 a call of three records is at its return: the entry has
\* been written after each of the three batches.
C21_Witness ==
  /\ batch_size = 1
  /\ call[1].pc = "return"
  /\ call[1].total = 3
  /\ progress[call[1].source].current_batch = 3


\* The step is the start of a call of caller c.
Starts(c) == call[c].pc = "idle" /\ call'[c].pc # "idle"

\* The start of a call puts the fresh entry in the place of whatever the map
\* held for its source, and every step of a call leaves the entries of the
\* other sources as they are.
C22_Frame ==
  \A c \in Callers :
    /\ Starts(c) =>
         /\ call'[c].source \in DOMAIN progress'
         /\ progress'[call'[c].source] =
              [source |-> call'[c].source, processed |-> 0,
               total |-> Some(Len(call'[c].records)), current_batch |-> 0,
               errors |-> 0, progress_percent |-> Ratio(0, 1)]
    /\ StepOf(c) =>
         /\ DOMAIN progress' = DOMAIN progress \cup {CallOf(c).source}
         /\ \A s \in DOMAIN progress :
              s # CallOf(c).source => progress'[s] = progress[s]

\* While a call is open, the entry of its source has the number of its
\* records as total.
C22_TotalOfCall ==
  \A c \in OpenCallers :
    /\ call[c].source \in DOMAIN progress
    /\ progress[call[c].source].total = Some(Len(call[c].records))

\* C22: at the start of ingest(source, records) the progress entry of source
\* becomes processed 0, current_batch 0, errors 0, progress_percent 0,
\* total Some(len(records)), whatever an earlier call left there; no step of
\* the call changes the entry of another source.
C22_ResetAtStart == []C22_TotalOfCall /\ [][C22_Frame]_vars

\* A second call for a source has just begun: the first had left an entry
\* with one record processed and one error, and the entry is fresh again.
C22_Witness ==
  /\ Len(calls) = 2
  /\ calls[1].source = calls[2].source
  /\ calls[1].returned = "Ok"
  /\ calls[1].result.total_records = 1
  /\ calls[1].result.failed = 1
  /\ \E c \in Callers :
       /\ call[c].n = 2
       /\ call[c].joined = 0
       /\ call[c].total = 1
       /\ progress[call[c].source].processed = 0
       /\ progress[call[c].source].errors = 0


\* The outcomes of a record that is turned away before the storage call.
Rejected == {"ValidationError", "Duplicate"}

\* The ids the dedup cache holds.
CachedIds == {fingerprints[f] : f \in DOMAIN fingerprints}

\* A task that is in, or past, its create_material call is for a valid
\* record; a task or a returned record classified ValidationError or
\* Duplicate has made no storage call, and neither the database nor the
\* cache holds an id for it.
C23_NoTraceOfRejected ==
  /\ \A c \in OpenCallers : \A i \in 1..call[c].total :
       /\ (task[c][i].pc \in {"create", "insert"} \/ task[c][i].store # "none")
            => validate_record(call[c].records[i])
       /\ task[c][i].outcome \in Rejected =>
            /\ task[c][i].store = "none"
            /\ NewId(c, i) \notin db \cup CachedIds
  /\ \A k \in 1..Len(calls) :
       \A i \in 1..Len(calls[k].outcomes) :
         calls[k].outcomes[i] \in Rejected =>
           /\ calls[k].stores[i] = "none"
           /\ <<k, i>> \notin db \cup CachedIds

\* A task goes on to create_material only when its record is valid and its
\* fingerprint is not in the cache at that moment; the step that classifies a
\* record ValidationError or Duplicate changes neither the cache nor the
\* database; the database changes only by the return of a create_material
\* call, and the cache only by the insertion that follows one (or a clear).
C23_Frame ==
  /\ \A c \in OpenCallers : \A i \in 1..call[c].total :
       /\ task[c][i].pc = "check" /\ task'[c][i].pc = "create" =>
            /\ validate_record(call[c].records[i])
            /\ generate_fingerprint(call[c].records[i]) \notin DOMAIN fingerprints
       /\ task[c][i].pc = "check" /\ task'[c][i].outcome \in Rejected =>
            /\ fingerprints' = fingerprints
            /\ db' = db
  /\ db' # db =>
       \E c \in OpenCallers : \E i \in 1..call[c].total :
         task[c][i].pc = "create" /\ task'[c][i].store = "Ok"
  /\ fingerprints' # fingerprints =>
       \/ clears' # clears
       \/ \E c \in OpenCallers : \E i \in 1..call[c].total :
            /\ task[c][i].pc = "insert"
            /\ task[c][i].store = "Ok"
            /\ task'[c][i].outcome = "Success"

\* C23: create_material is invoked, and the dedup cache written, only for a
\* record that passed validation and whose fingerprint was absent at its
\* dedup check; a record classified ValidationError or Duplicate causes no
\* storage call and leaves the cache unchanged.
C23_OnlyAdmittedStored == []C23_NoTraceOfRejected /\ [][C23_Frame]_vars

\* A call has returned with one record stored, one found Duplicate and the
\* cache holding the one fingerprint.
C23_Witness ==
  \E k \in 1..Len(calls) :
    /\ calls[k].outcomes = <<"Success", "Duplicate">>
    /\ calls[k].stores = <<"Ok", "none">>
    /\ Cardinality(DOMAIN fingerprints) = 1


\* The storage outcomes that are failures.
StoreFailures == {"Err", "Panic"}

\* A task in its create_material call has not made one before; an open call
\* has counted as failed the joined records whose storage failed, each once.
C24_OneCallPerRecord ==
  \A c \in OpenCallers :
    /\ \A i \in 1..call[c].total :
         task[c][i].pc = "create" => task[c][i].store = "none"
    /\ call[c].failed =
         Cardinality({i \in 1..call[c].joined : task[c][i].store \in StoreFailures})

\* Within a call, a task enters create_material from the dedup check only,
\* the outcome of its storage call is never replaced by that of another,
\* and a failed record is tallied by the one step that joins its task.
C24_Frame ==
  \A c \in OpenCallers :
    call'[c].n = call[c].n =>
      /\ \A i \in 1..call[c].total :
           /\ task'[c][i].pc = "create" /\ task[c][i].pc # "create"
                => task[c][i].pc = "check"
           /\ task[c][i].store # "none" =>
                /\ task'[c][i].store = task[c][i].store
                /\ task'[c][i].pc # "create"
      /\ call'[c].failed # call[c].failed =>
           /\ call'[c].failed = call[c].failed + 1
           /\ call'[c].joined = call[c].joined + 1
           /\ task[c][call'[c].joined].store \in StoreFailures

\* C24: within one ingest call create_material is invoked at most once per
\* record: a storage failure is not retried, and its record is counted as
\* failed exactly once.
C24_NoRetry == []C24_OneCallPerRecord /\ [][C24_Frame]_vars

\* A call of two records has returned: the storage call of the first failed,
\* that of the second succeeded, and one record is counted as failed.
C24_Witness ==
  \E k \in 1..Len(calls) :
    /\ calls[k].stores = <<"Err", "Ok">>
    /\ calls[k].returned = "Ok"
    /\ calls[k].result.failed = 1
    /\ calls[k].result.successful = 1


\* A key with all its white space stripped and its letters lower-cased.
StripWhite(k) ==
  LET stripped == SelectSeq(k, LAMBDA ch : ch \notin White)
  IN [i \in 1..Len(stripped) |-> to_lowercase(stripped[i])]

\* C25: for one source, generate_fingerprint gives two keys equal
\* fingerprints exactly when the keys are equal after all white space (space,
\* tab, newline) is stripped and the letters are lower-cased.
C25_FingerprintEqualIffNormalEqual ==
  ret.fn = "generate_fingerprint" =>
    ((ret.v1 = ret.v2) <=> (StripWhite(keys.k1) = StripWhite(keys.k2)))


\* The rule: the normalized key is not empty and has an alphabetic character.
Acceptable(k) ==
  LET normalized == normalize_formula(k) IN
  /\ normalized # <<>>
  /\ \E i \in 1..Len(normalized) : is_alphabetic(normalized[i])

\* The records that have key k: any source, any source id.
RecordsOf(k) ==
  {Rec(s, id, k) : s \in SourceArgs \cup {ICSD, Custom(<<"a">>)},
                   id \in {"id-1", "id-2", ""}}

\* validate_record accepts a record exactly when its key is acceptable, and
\* gives the same answer for every record with that key.
C26_AcceptsAcceptable ==
  ret.fn = "validate_record" =>
    /\ ret.v1 <=> Acceptable(keys.k1)
    /\ ret.v2 <=> Acceptable(keys.k2)
    /\ \A r \in RecordsOf(keys.k1) : validate_record(r) <=> ret.v1

\* C26: validate_record accepts a record exactly when its normalized key is
\* non-empty and contains an alphabetic character; it reads only the key and
\* changes nothing of the pipeline.
C26_ValidateRule ==
  []C26_AcceptsAcceptable /\ [][ret' # ret => UNCHANGED NotRet]_vars

\* validate_record has accepted a key with a letter among white space and
\* rejected a key of white space and a digit.
C26_Witness ==
  /\ ret.fn = "validate_record"
  /\ keys.k1 = <<"\t", "F", " ">>
  /\ ret.v1
  /\ keys.k2 = <<" ", "2", "\n">>
  /\ ~ret.v2


\* Every id in the cache is the id of a stored material, none is the id of
\* a record whose storage call failed, and a record is classified Duplicate
\* only when a record with its fingerprint has returned Success.
C27_NothingReserved ==
  /\ CachedIds \subseteq db
  /\ \A c \in OpenCallers : \A i \in 1..call[c].total :
       /\ task[c][i].store \in StoreFailures => NewId(c, i) \notin CachedIds
       /\ task[c][i].outcome = "Duplicate" =>
            \E s \in successes :
              s.fingerprint = generate_fingerprint(call[c].records[i])
  /\ \A k \in 1..Len(calls) : \A i \in 1..Len(calls[k].outcomes) :
       /\ calls[k].stores[i] \in StoreFailures => <<k, i>> \notin CachedIds
       /\ calls[k].outcomes[i] = "Duplicate" =>
            \E s \in successes :
              s.fingerprint = generate_fingerprint(calls[k].records[i])

\* No step of a task whose storage call fails or has failed changes the
\* cache.
C27_Frame ==
  \A c \in OpenCallers : \A i \in 1..call[c].total :
    ( /\ task'[c][i] # task[c][i]
      /\ call'[c].n = call[c].n
      /\ task'[c][i].store \in StoreFailures ) => fingerprints' = fingerprints

\* C27: a record whose create_material call fails leaves the dedup cache as
\* it is: its fingerprint is not reserved, and a later record with that
\* fingerprint is not classified Duplicate on its account.
C27_FailureLeavesCache == []C27_NothingReserved /\ [][C27_Frame]_vars

\* The storage call of the first Fe2O3 record failed, and the second record,
\* with the same fingerprint, was stored with Success.
C27_Witness ==
  \E k \in 1..Len(calls) :
    /\ calls[k].records = ScenarioFe2O3
    /\ calls[k].stores = <<"Err", "Ok", "Ok">>
    /\ calls[k].outcomes = <<"Err", "Success", "Success">>


\* The fingerprints of the records that have returned Success since the last
\* clear_cache.
SuccessesSinceClear == {s.fingerprint : s \in {x \in successes : x.clears = clears}}

\* The cache holds exactly the fingerprints that returned Success since the
\* last clear, each with the id of a stored material whose record has that
\* fingerprint.
C28_CacheIsSuccesses ==
  /\ DOMAIN fingerprints = SuccessesSinceClear
  /\ \A f \in DOMAIN fingerprints :
       /\ fingerprints[f] \in db
       /\ generate_fingerprint(RecordOf(fingerprints[f])) = f
       /\ \E s \in successes : s.fingerprint = f /\ s.id = fingerprints[f]

\* Without a clear_cache no key leaves the cache.
C28_Grows ==
  clears' = clears => DOMAIN fingerprints \subseteq DOMAIN fingerprints'

\* C28: in every reachable state the keys of the dedup cache are the
\* fingerprints of the records that completed with Success since the last
\* clear_cache, each key maps to an id a successful create_material call
\* returned for a record with that fingerprint, and between clears the key
\* set only grows.
C28_CacheInvariant == []C28_CacheIsSuccesses /\ [][C28_Grows]_vars

\* A record was stored before the clear and another after it: the cache
\* holds the fingerprint of the second only.
C28_Witness ==
  /\ clears = 1
  /\ \E s0, s1 \in successes :
       /\ s0.clears = 0
       /\ s1.clears = 1
       /\ s0.fingerprint # s1.fingerprint
       /\ DOMAIN fingerprints = {s1.fingerprint}


\* While the breaker is HalfOpen it has admitted at most success_threshold
\* calls since it became HalfOpen.
C29_LimitedAdmission ==
  breaker.state = "HalfOpen" =>
    breaker.half_open_admitted <= breaker.success_threshold

\* The breaker goes from HalfOpen to Closed only when success_threshold
\* successes have been recorded since it became HalfOpen.
C29_ClosesAfterSuccesses ==
  breaker.state = "HalfOpen" /\ breaker'.state = "Closed" =>
    breaker.half_open_successes >= breaker.success_threshold

\* C29: each time the breaker enters HalfOpen, by check_and_transition or by
\* the auto-recovery task, it returns to Closed only after success_threshold
\* successes recorded in that HalfOpen period, and it admits at most
\* success_threshold calls before it leaves HalfOpen, also with calls in
\* flight concurrently.
C29_HalfOpenProbes == []C29_LimitedAdmission /\ [][C29_ClosesAfterSuccesses]_vars


\* C30: after any sequence of is_enabled calls, under every strategy and
\* with or without a user id, total_checks = true_checks + false_checks.
C30_ChecksAddUp ==
  flag.total_checks = flag.true_checks + flag.false_checks

====
